---- MODULE Spec2Model ----
(***************************************************************************)
(* ServerManager of lazyllama (src/src/core/server_manager.py) with the    *)
(* server lifecycle of BaseServer / CommandServer                          *)
(* (src/src/core/servers/base_server.py, command_server.py).               *)
(*                                                                         *)
(* Units.  Memory is counted in units of 50 MB and context sizes in units  *)
(* of 500 tokens, so that the affine resource models of the repository's   *)
(* tests are integers: (100, 0.1, 200, 0.2) is <<2, 1, 4, 2>> and           *)
(* n_ctx = 3000 is 6.  On these values the float arithmetic of the code is *)
(* exact (100.0 + 0.1 * 3000 = 400.0, 100 + 0.1 * 3500 = 450.0).           *)
(***************************************************************************)
EXTENDS Integers, Sequences, FiniteSets, TLC

VARIABLES
    total_ram_mb,      \* ServerManager.total_ram_mb
    total_vram_mb,     \* ServerManager.total_vram_mb
    resource_models,   \* ServerManager.resource_models: key -> <<r0, r1, v0, v1>>
    ext_bound,         \* ports bound by processes that are not ours
    aliases,           \* AliasManager._aliases: name -> Alias
    servers,           \* every BaseServer object created so far, by identity
    running_servers,   \* ServerManager.running_servers: sequence of identities
    task,              \* per caller: the position of its get_or_start_server call
    callers,           \* the tasks that call the manager
    key_order,         \* insertion order of the keys of resource_models (a dict)
    cache_file,        \* the file at RESOURCE_CACHE_PATH
    dir_ok,            \* whether the parent directory of the file can be made
    measure,           \* what measure_resource_model returns, per key
    measured,          \* the aliases measure was called with by this manager
    restarts,          \* number of managers constructed after the first
    add_log,           \* the add_alias calls made so far and what each raised
    unit               \* one server object driven directly, and its processes

vars == <<total_ram_mb, total_vram_mb, resource_models, ext_bound, aliases,
          servers, running_servers, task, callers, key_order, cache_file,
          dir_ok, measure, measured, restarts, add_log, unit>>

\* ------------------------------------------------------------------ bounds

\* Number of server objects created in one run.
MaxServers == 3

\* Number of processes that have exited on their own and were not stopped since.
MaxDead == 1

\* Number of managers constructed from the cache file after the first.
MaxRestarts == 1

\* Number of add_alias calls in one run.
MaxAdds == 3

\* Number of processes one server object spawns.
MaxProcs == 2

\* Number of check_running polls of one stop_and_wait that are counted.
MaxPolls == 2

\* --------------------------------------------------------------- constants

LlamaCppBasePort == 8000
OllamaBasePort == 11434
MaxTries == 100

\* Times in tenths of a second: the default timeout of wait_until_ready
\* (10.0 s) and the sleep between two probes (0.5 s).
DefaultTimeout == 100
PollPeriod == 5

Tasks == {1, 2}

\* ------------------------------------------------------------------ aliases

MkAlias(name, model_name, backend, n_ctx, command_params) ==
    [name |-> name, model_name |-> model_name, backend |-> backend,
     n_ctx |-> n_ctx, command_params |-> command_params]

NoAlias == MkAlias("", "", "", 0, <<>>)

Foo == <<"--foo">>
FooX == <<"--foo", "--x">>

AliasS  == MkAlias("s",  "llama2", "ollama",   2, Foo)
AliasA  == MkAlias("a",  "llama2", "ollama",   6, Foo)
AliasB  == MkAlias("b",  "llama2", "ollama",   7, Foo)
AliasQ  == MkAlias("q",  "llama2", "ollama",   6, FooX)
AliasP  == MkAlias("p",  "phi",    "llamacpp", 2, <<>>)

\* Aliases whose model id or parameters hold the separators of the cache file.
AliasC1 == MkAlias("c1", "m",    "ollama",   2, <<"a,b">>)
AliasC2 == MkAlias("c2", "m",    "ollama",   2, <<"a", "b">>)
AliasC3 == MkAlias("c3", "m::x", "ollama",   2, <<>>)
AliasC4 == MkAlias("c4", "m",    "llamacpp", 2, <<"">>)
AliasC5 == MkAlias("c5", "m",    "ollama",   6, <<"a,b">>)
AliasC6 == MkAlias("c6", "m",    "llamacpp", 2, <<"a">>)

Aliases == {AliasS, AliasA, AliasB, AliasQ, AliasP,
            AliasC1, AliasC2, AliasC3, AliasC4, AliasC5, AliasC6}

Names == {a.name : a \in Aliases}

\* Names that only some machines have in their registry.
RareNames == {AliasB.name, AliasQ.name}

\* What the two configuration sources may declare: alias "s", the same name
\* with one field changed, and another name.
SourceAliases ==
    {AliasS,
     MkAlias("s", "llama2", "ollama",   6, Foo),
     MkAlias("s", "phi",    "ollama",   2, Foo),
     MkAlias("s", "llama2", "llamacpp", 2, Foo),
     MkAlias("s", "llama2", "ollama",   2, FooX),
     AliasP}

\* What decides the footprint of a server: backend, model and parameters.
Footprint(alias) == <<alias.backend, alias.model_name, alias.command_params>>

Keys == {Footprint(a) : a \in Aliases}

\* Faulty variant: the alias name is taken for the model name.
ResourceKey_ByName(alias) == <<alias.backend, alias.name, alias.command_params>>

\* The key of get_or_measure_resource_model.
ResourceKey(alias) == <<alias.backend, alias.model_name, alias.command_params>>

\* ------------------------------------------------------- resource cache

\* A Python string as its sequence of characters.  Only ':' and ',' matter to
\* the cache format, so a run of other characters is kept as one element.
Chars(s) ==
    CASE s = ""     -> <<>>
      [] s = "a,b"  -> <<"a", ",", "b">>
      [] s = "m::x" -> <<"m", ":", ":", "x">>
      [] OTHER      -> <<s>>

Strings ==
    {"", "a", "b", "a,b", "m", "x", "m::x", "llama2", "phi", "--foo", "--x",
     "ollama", "llamacpp", "vllm"}

\* The string with the given characters.
Str(cs) ==
    IF Len(cs) = 1 THEN cs[1] ELSE CHOOSE s \in Strings : Chars(s) = cs

BackendValues == {"ollama", "llamacpp"}

FirstIndex(cs, sep) ==
    LET hits == {i \in 1..(Len(cs) - Len(sep) + 1) :
                    SubSeq(cs, i, i + Len(sep) - 1) = sep}
    IN  IF hits = {} THEN 0 ELSE CHOOSE i \in hits : \A j \in hits : i <= j

\* str.split(sep)
RECURSIVE Split(_, _)
Split(cs, sep) ==
    LET i == FirstIndex(cs, sep)
    IN  IF i = 0 THEN <<cs>>
        ELSE <<SubSeq(cs, 1, i - 1)>>
                 \o Split(SubSeq(cs, i + Len(sep), Len(cs)), sep)

\* sep.join(parts)
RECURSIVE Join(_, _)
Join(parts, sep) ==
    IF parts = <<>> THEN <<>>
    ELSE IF Len(parts) = 1 THEN parts[1]
    ELSE parts[1] \o sep \o Join(Tail(parts), sep)

\* f"{backend.value}::{model_name}::{params_str}"
key_str(key) ==
    Chars(key[1]) \o <<":", ":">> \o Chars(key[2]) \o <<":", ":">>
        \o Join([i \in 1..Len(key[3]) |-> Chars(key[3][i])], <<",">>)

NoKey == <<>>

\* The key a line of the file is loaded under; NoKey when the line is skipped.
ParseKey(ks) ==
    LET parts == Split(ks, <<":", ":">>)
    IN  IF Len(parts) # 3 THEN NoKey
        ELSE IF Str(parts[1]) \notin BackendValues THEN NoKey
        ELSE LET params == IF parts[3] = <<>> THEN <<>>
                           ELSE Split(parts[3], <<",">>)
             IN  <<Str(parts[1]), Str(parts[2]),
                   [i \in 1..Len(params) |-> Str(params[i])]>>

\* A dict as the sequence of its items: assigning to a key that is present
\* replaces the value in place, a new key goes to the end.
RECURSIVE SetItem(_, _, _)
SetItem(items, k, v) ==
    IF items = <<>> THEN <<[key |-> k, vals |-> v]>>
    ELSE IF Head(items).key = k THEN <<[key |-> k, vals |-> v]>> \o Tail(items)
    ELSE <<Head(items)>> \o SetItem(Tail(items), k, v)

MissingFile == [kind |-> "missing", entries |-> <<>>]
MalformedFile == [kind |-> "malformed", entries |-> <<>>]
JsonFile(entries) == [kind |-> "json", entries |-> entries]

\* The loop of _load_resource_cache over data.items().
RECURSIVE LoadEntries(_, _)
LoadEntries(entries, items) ==
    IF entries = <<>> THEN items
    ELSE LET e == Head(entries)
             key == ParseKey(e.key)
         IN  LoadEntries(Tail(entries),
                 IF key # NoKey /\ Len(e.vals) = 4
                 THEN SetItem(items, key, e.vals) ELSE items)

\* _load_resource_cache: the items of resource_models after the load.  mkdir,
\* open and json.load raise inside the try; the cache then stays empty.
_load_resource_cache(file, mkdir_ok) ==
    IF ~mkdir_ok \/ file.kind # "json" THEN <<>>
    ELSE LoadEntries(file.entries, <<>>)

\* The loop of _persist_resource_cache: data[key_str] = list(vals).
RECURSIVE DumpItems(_, _)
DumpItems(items, data) ==
    IF items = <<>> THEN data
    ELSE DumpItems(Tail(items),
             SetItem(data, key_str(Head(items).key), Head(items).vals))

\* The items of a dict given as function and insertion order.
Items(dict, order) ==
    [i \in 1..Len(order) |-> [key |-> order[i], vals |-> dict[order[i]]]]

\* The dict of a sequence of items.
DictOf(items) ==
    [k \in {items[i].key : i \in 1..Len(items)} |->
        items[CHOOSE i \in 1..Len(items) : items[i].key = k].vals]

\* ----------------------------------------------------------------- machines

Uniform(m) == [k \in Keys |-> m]

PerKey ==
    [k \in Keys |-> IF k = Footprint(AliasP)
                    THEN <<2, 1, 1, 0>> ELSE <<2, 1, 2, 2>>]

\* Models of which the one of "p" takes more RAM and less VRAM than the other.
RamHeavy ==
    [k \in Keys |-> IF k = Footprint(AliasP)
                    THEN <<4, 1, 1, 0>> ELSE <<2, 1, 2, 2>>]

\* The file a manager with the given models has written: the keys of the
\* aliases of the tests, in the order of their measurement.
WrittenBy(models) ==
    JsonFile(DumpItems(
        Items(models, <<Footprint(AliasS), Footprint(AliasQ),
                        Footprint(AliasP)>>), <<>>))

\* A machine: its memory, the resource model measure_resource_model finds per
\* key, the cache file and its directory, the ports taken by other programs,
\* and the aliases of its configuration files.
Machines ==
    { \* S1: plenty of memory
      [ram |-> 200, vram |-> 200, models |-> Uniform(<<2, 1, 4, 2>>),
       file |-> WrittenBy(Uniform(<<2, 1, 4, 2>>)), dir |-> TRUE,
       bound |-> {}, registry |-> {AliasS, AliasA, AliasQ, AliasP}],
      \* S2: RAM = 400, VRAM = 800, model (100, 0.1, 200, 0.2)
      [ram |-> 8, vram |-> 16, models |-> Uniform(<<2, 1, 4, 2>>),
       file |-> WrittenBy(Uniform(<<2, 1, 4, 2>>)), dir |-> TRUE,
       bound |-> {}, registry |-> {AliasS, AliasA, AliasB}],
      \* S3: RAM = 300, VRAM = 1000, model (100, 0.1, 100, 0.2)
      [ram |-> 6, vram |-> 20, models |-> Uniform(<<2, 1, 2, 2>>),
       file |-> WrittenBy(Uniform(<<2, 1, 2, 2>>)), dir |-> TRUE,
       bound |-> {}, registry |-> {AliasS, AliasA, AliasB}],
      \* a machine whose models differ per key, port 8000 taken by another program
      [ram |-> 14, vram |-> 18, models |-> PerKey,
       file |-> WrittenBy(PerKey), dir |-> TRUE,
       bound |-> {LlamaCppBasePort}, registry |-> {AliasS, AliasA, AliasP}],
      \* a machine on which other programs hold every llamacpp port
      [ram |-> 20, vram |-> 40, models |-> Uniform(<<2, 1, 4, 2>>),
       file |-> WrittenBy(Uniform(<<2, 1, 4, 2>>)), dir |-> TRUE,
       bound |-> LlamaCppBasePort..(LlamaCppBasePort + MaxTries - 1),
       registry |-> {AliasS, AliasP}],
      \* a machine with much VRAM and little RAM, on which an Ollama daemon
      \* of the system holds port 11434
      [ram |-> 12, vram |-> 30, models |-> RamHeavy,
       file |-> WrittenBy(RamHeavy), dir |-> TRUE,
       bound |-> {OllamaBasePort}, registry |-> {AliasS, AliasA, AliasP}] }

\* What measure_resource_model finds on the machines of the cache: the two
\* parameter lists <<"a,b">> and <<"a", "b">> have different footprints.
CacheModels ==
    [k \in Keys |-> IF k = Footprint(AliasC2)
                    THEN <<2, 1, 2, 2>> ELSE <<2, 1, 4, 2>>]

\* A file with one good line (the key of AliasC6) and lines the load skips: an
\* unknown backend, a key of two parts, a value that is not four numbers.
OddFile ==
    JsonFile(<<[key |-> key_str(Footprint(AliasC6)), vals |-> <<2, 1, 4, 2>>],
               [key |-> <<"vllm", ":", ":", "m", ":", ":">>, vals |-> <<2, 1, 4, 2>>],
               [key |-> <<"ollama", ":", ":", "m">>, vals |-> <<2, 1, 4, 2>>],
               [key |-> key_str(Footprint(AliasC1)), vals |-> <<2, 1, 4>>]>>)

\* Machines with RAM = 400, VRAM = 800 whose cache file is missing, damaged or
\* odd, or whose cache directory cannot be made (then there is no file).
CacheMachines ==
    { [ram |-> 8, vram |-> 16, models |-> CacheModels, file |-> fd[1],
       dir |-> fd[2], bound |-> {}, registry |-> r] :
      fd \in {<<MissingFile, TRUE>>, <<MalformedFile, TRUE>>,
              <<OddFile, TRUE>>, <<MissingFile, FALSE>>},
      r \in {{AliasC1, AliasC2, AliasC5}, {AliasC3, AliasC4, AliasC6}} }

IsS2 == total_ram_mb = 8
IsS3 == total_ram_mb = 6

\* ------------------------------------------------------------ pure helpers

get_or_measure_resource_model(alias) == resource_models[ResourceKey(alias)]

PredictedRAM(alias) ==
    LET m == get_or_measure_resource_model(alias) IN m[1] + m[2] * alias.n_ctx

PredictedVRAM(alias) ==
    LET m == get_or_measure_resource_model(alias) IN m[3] + m[4] * alias.n_ctx

check_running(s) == servers[s].proc = "alive"

\* Faulty variant: the context comparison is strict.
is_compatible_Strict(request, running) ==
    /\ request.model_name = running.model_name
    /\ request.backend = running.backend
    /\ request.command_params = running.command_params
    /\ request.n_ctx < running.n_ctx

\* Faulty variant: the context sizes are not compared.
is_compatible_NoCtx(request, running) ==
    /\ request.model_name = running.model_name
    /\ request.backend = running.backend
    /\ request.command_params = running.command_params

\* request.model == running.model compares model_name and backend.
is_compatible(request, running) ==
    /\ request.model_name = running.model_name
    /\ request.backend = running.backend
    /\ request.command_params = running.command_params
    /\ request.n_ctx <= running.n_ctx

\* Sum of the predicted RAM / VRAM of a sequence of servers, each at the
\* n_ctx of its own alias.
RECURSIVE SumRAM(_)
SumRAM(seq) ==
    IF seq = <<>> THEN 0
    ELSE PredictedRAM(servers[Head(seq)].alias) + SumRAM(Tail(seq))

RECURSIVE SumVRAM(_)
SumVRAM(seq) ==
    IF seq = <<>> THEN 0
    ELSE PredictedVRAM(servers[Head(seq)].alias) + SumVRAM(Tail(seq))

IsLive(s) == check_running(s)
IsDead(s) == ~check_running(s)

\* Faulty variant: the liveness test of the accounting loop inverted.
get_current_usage_Inverted ==
    LET counted == SelectSeq(running_servers, IsDead)
    IN  <<SumRAM(counted), SumVRAM(counted)>>

\* Faulty variant: every entry is counted, whether its process is alive or not.
get_current_usage_All ==
    <<SumRAM(running_servers), SumVRAM(running_servers)>>

\* The entries whose check_running() is false are skipped.
get_current_usage ==
    LET counted == SelectSeq(running_servers, IsLive)
    IN  <<SumRAM(counted), SumVRAM(counted)>>

\* ---------------------------------------------------------------- eviction

\* w_i = max(R_i / max(dR, 1e-6), V_i / max(dV, 1e-6)) as an exact rational.
\* A positive deficit is at least one unit (50 MB), so max(d, 1e-6) = d and the
\* term is x / d.  A deficit <= 0 gives x / 1e-6, which for x >= 1 unit is at
\* least 5e7 and exceeds every term of the first kind (those are <= the largest
\* predicted usage); it is kept as class 1, ordered among its class by x.
Term(x, d) ==
    IF d > 0 THEN <<0, x, d>>
    ELSE IF x > 0 THEN <<1, x, 1>> ELSE <<0, 0, 1>>

WLess(a, b) ==
    \/ a[1] < b[1]
    \/ a[1] = b[1] /\ a[2] * b[3] < b[2] * a[3]

WMax(a, b) == IF WLess(a, b) THEN b ELSE a

Weight(s, R_deficit, V_deficit) ==
    WMax(Term(PredictedRAM(servers[s].alias), R_deficit),
         Term(PredictedVRAM(servers[s].alias), V_deficit))

HasStatusRunning(s) == servers[s].status = "running"

\* Faulty variant: an element goes before the elements of equal weight.
RECURSIVE InsertDesc_Unstable(_, _, _, _)
InsertDesc_Unstable(sorted, x, dR, dV) ==
    IF sorted = <<>> THEN <<x>>
    ELSE IF ~WLess(Weight(x, dR, dV), Weight(Head(sorted), dR, dV))
         THEN <<x>> \o sorted
         ELSE <<Head(sorted)>> \o InsertDesc_Unstable(Tail(sorted), x, dR, dV)

\* candidates.sort(reverse=True, key=w): stable, so x goes behind every
\* element whose weight is not less than its own.
RECURSIVE InsertDesc(_, _, _, _)
InsertDesc(sorted, x, dR, dV) ==
    IF sorted = <<>> THEN <<x>>
    ELSE IF WLess(Weight(Head(sorted), dR, dV), Weight(x, dR, dV))
         THEN <<x>> \o sorted
         ELSE <<Head(sorted)>> \o InsertDesc(Tail(sorted), x, dR, dV)

RECURSIVE SortDesc(_, _, _, _)
SortDesc(done, todo, dR, dV) ==
    IF todo = <<>> THEN done
    ELSE SortDesc(InsertDesc(done, Head(todo), dR, dV), Tail(todo), dR, dV)

\* Faulty variant: every server object created so far is a candidate,
\* whatever its status.
Candidates_AnyStatus(dR, dV) ==
    SortDesc(<<>>, [i \in 1..Len(servers) |-> i], dR, dV)

\* The candidates of evict_servers: the entries whose status is running, in
\* the order of the traversal.
Candidates(dR, dV) ==
    SortDesc(<<>>, SelectSeq(running_servers, HasStatusRunning), dR, dV)

\* The selection loop: append, accumulate, break once both deficits are met.
RECURSIVE Accumulate(_, _, _, _, _)
Accumulate(cands, R_total, V_total, dR, dV) ==
    IF cands = <<>> THEN <<>>
    ELSE LET s == Head(cands)
             R2 == R_total + PredictedRAM(servers[s].alias)
             V2 == V_total + PredictedVRAM(servers[s].alias)
         IN  IF R2 >= dR /\ V2 >= dV
             THEN <<s>>
             ELSE <<s>> \o Accumulate(Tail(cands), R2, V2, dR, dV)

\* Faulty variant: the loop never breaks, every candidate is selected.
evict_servers_NoBreak(R_deficit, V_deficit) == Candidates(R_deficit, V_deficit)

\* Faulty variant: the loop stops after the first candidate.
evict_servers_FirstOnly(R_deficit, V_deficit) ==
    LET c == Candidates(R_deficit, V_deficit)
    IN  IF c = <<>> THEN <<>> ELSE <<Head(c)>>

\* The selection; <<>> stands for the RuntimeError "No servers can be evicted".
evict_servers(R_deficit, V_deficit) ==
    Accumulate(Candidates(R_deficit, V_deficit), 0, 0, R_deficit, V_deficit)

\* ------------------------------------------------------------------- ports

DEFAULT_PORTS(backend) ==
    IF backend = "ollama" THEN OllamaBasePort ELSE LlamaCppBasePort

Tracked(port) ==
    \E i \in 1..Len(running_servers) : servers[running_servers[i]].port = port

\* s.bind(("localhost", port)) succeeds: nobody listens on the port, neither
\* another program nor a live process of one of our servers.
BindSucceeds(port) ==
    /\ port \notin ext_bound
    /\ \A s \in 1..Len(servers) :
           servers[s].proc = "alive" => servers[s].port # port

\* Faulty variant: the bind probe alone decides, tracked ports are not skipped.
get_free_port_ProbeOnly(backend) ==
    LET base == DEFAULT_PORTS(backend)
        free == {p \in base..(base + MaxTries - 1) : BindSucceeds(p)}
    IN  IF free = {} THEN 0 ELSE CHOOSE p \in free : \A q \in free : p <= q

\* The loop over range(max_tries): the first offset whose port no tracked
\* server has and that binds; 0 stands for the RuntimeError "No free ports
\* available".
RECURSIVE ScanPorts(_, _)
ScanPorts(base_port, offset) ==
    IF offset >= MaxTries THEN 0
    ELSE LET port == base_port + offset
         IN  IF ~Tracked(port) /\ BindSucceeds(port) THEN port
             ELSE ScanPorts(base_port, offset + 1)

\* Faulty variant: the scan starts at offset 1.
get_free_port_FromOne(backend) == ScanPorts(DEFAULT_PORTS(backend), 1)

get_free_port(backend) == ScanPorts(DEFAULT_PORTS(backend), 0)

\* ------------------------------------------------------------- admission

NoResult == [kind |-> "none", alias |-> NoAlias, server |-> 0]

\* A server object as BaseServer.__init__ leaves it: status stopped, no
\* process; no method is running.
NoUnit ==
    [variant |-> "none", status |-> "stopped", handle |-> 0, procs |-> <<>>,
     op |-> "none", pc |-> "idle", timeout |-> 0, probes |-> 0, last |-> "",
     stops |-> 0, polls |-> 0, raised |-> "none",
     steps |-> <<>>, api_polls |-> 0, warmups |-> 0]

IdleTask ==
    [pc |-> "idle", alias |-> NoAlias, R_free |-> 0, V_free |-> 0,
     evicted |-> <<>>, ei |-> 0, srv |-> 0, result |-> NoResult]

\* get_or_start_server returns `server` or raises `kind`.
Finish(t, kind, server) ==
    [IdleTask EXCEPT !.result =
        [kind |-> kind, alias |-> task[t].alias, server |-> server]]

R_need(alias) == PredictedRAM(alias)
V_need(alias) == PredictedVRAM(alias)

Short(alias, R_free, V_free) ==
    R_free < R_need(alias) \/ V_free < V_need(alias)

\* Faulty variant: the scan keeps going and returns the last hit.
FirstCompatible_Last(alias) ==
    LET hits == {i \in 1..Len(running_servers) :
                    /\ check_running(running_servers[i])
                    /\ is_compatible(alias, servers[running_servers[i]].alias)}
    IN  IF hits = {} THEN 0
        ELSE running_servers[CHOOSE i \in hits : \A j \in hits : i >= j]

\* The reuse scan: the first entry that is live and compatible, 0 if none.
FirstCompatible(alias) ==
    LET hits == {i \in 1..Len(running_servers) :
                    /\ check_running(running_servers[i])
                    /\ is_compatible(alias, servers[running_servers[i]].alias)}
    IN  IF hits = {} THEN 0
        ELSE running_servers[CHOOSE i \in hits : \A j \in hits : i <= j]

\* Faulty variant: nothing is removed from the running set.
RemoveEvicted_Keep(list, e) == list

\* Faulty variant: the last entry whose alias equals the evicted server's.
RemoveEvicted_Last(list, e) ==
    LET hits == {i \in 1..Len(list) : servers[list[i]].alias = servers[e].alias}
    IN  IF hits = {} THEN list
        ELSE LET k == CHOOSE i \in hits : \A j \in hits : i >= j
             IN  SubSeq(list, 1, k - 1) \o SubSeq(list, k + 1, Len(list))

\* The removal loop: the first entry whose alias equals the evicted server's.
RemoveEvicted(list, e) ==
    LET hits == {i \in 1..Len(list) : servers[list[i]].alias = servers[e].alias}
    IN  IF hits = {} THEN list
        ELSE LET k == CHOOSE i \in hits : \A j \in hits : i <= j
             IN  SubSeq(list, 1, k - 1) \o SubSeq(list, k + 1, Len(list))

\* What an admission never assigns: the machine and the callers.
Unchanged_environment ==
    UNCHANGED <<total_ram_mb, total_vram_mb, ext_bound, aliases, callers,
                dir_ok, measure, restarts, add_log, unit>>

Unchanged_cache ==
    UNCHANGED <<resource_models, key_order, cache_file, measured>>

Unchanged_machine == Unchanged_environment /\ Unchanged_cache

\* The external collaborator: the footprint of the alias's model, backend and
\* parameters on this machine.
measure_resource_model(alias) ==
    measure[Footprint(alias)]

\* The file after _persist_resource_cache has run on the given dict: written,
\* unchanged when open() fails, cut short when json.dump fails (both caught).
_persist_resource_cache(dict, order, outcome) ==
    CASE outcome = "written"    -> JsonFile(DumpItems(Items(dict, order), <<>>))
      [] outcome = "open_fails" -> cache_file
      [] outcome = "dump_fails" -> MalformedFile

WriteOutcomes == {"written", "open_fails", "dump_fails"}

\* One event loop runs every caller: a caller runs only while every other
\* caller is outside get_or_start_server or suspended in one of its awaits
\* that yield (stop() inside stop_and_wait, start() and wait_until_ready()
\* inside start_and_wait).
OthersSuspended(t) ==
    \A u \in Tasks \ {t} : task[u].pc \in {"idle", "stopping", "start", "waiting"}

\* A caller enters get_or_start_server(alias): the loop over running_servers
\* returns the first live compatible server, or falls through to the
\* prediction.  get_or_measure_resource_model returns the cached model of the
\* key or measures, installs and persists; the mkdir of the persist is outside
\* its try, so its OSError leaves get_or_start_server.
\* No check_running() of the repository suspends, so all this is one step.
Call(t, name) ==
    /\ t \in callers
    /\ task[t].pc = "idle"
    /\ OthersSuspended(t)
    /\ Len(servers) < MaxServers
    /\ name \in DOMAIN aliases
    /\ LET alias == aliases[name]
           hit == FirstCompatible(alias)
           entered == [IdleTask EXCEPT !.alias = alias]
           key == ResourceKey(alias)
           installed == [k \in DOMAIN resource_models \cup {key} |->
                            IF k = key THEN measure_resource_model(alias)
                                       ELSE resource_models[k]]
       IN  IF hit # 0
           THEN /\ task' = [task EXCEPT ![t] = [entered EXCEPT !.result =
                        [kind |-> "reused", alias |-> alias, server |-> hit]]]
                /\ Unchanged_cache
           ELSE IF key \in DOMAIN resource_models
           THEN /\ task' = [task EXCEPT ![t] = [entered EXCEPT !.pc = "account"]]
                /\ Unchanged_cache
           ELSE /\ resource_models' = installed
                /\ key_order' = Append(key_order, key)
                /\ measured' = Append(measured, alias)
                /\ IF ~dir_ok
                   THEN /\ task' = [task EXCEPT ![t] = [entered EXCEPT !.result =
                                [kind |-> "OSError", alias |-> alias, server |-> 0]]]
                        /\ UNCHANGED cache_file
                   ELSE /\ task' = [task EXCEPT ![t] =
                                [entered EXCEPT !.pc = "account"]]
                        /\ \E outcome \in WriteOutcomes :
                              cache_file' = _persist_resource_cache(
                                  installed, Append(key_order, key), outcome)
    /\ UNCHANGED <<servers, running_servers>>
    /\ Unchanged_environment

\* R_need, V_need, get_current_usage, the first test of the free amounts and,
\* when they are short, evict_servers(R_need - R_free, V_need - V_free).
Account(t) ==
    /\ task[t].pc = "account"
    /\ OthersSuspended(t)
    /\ LET used == get_current_usage
           R_free == total_ram_mb - used[1]
           V_free == total_vram_mb - used[2]
           sel == evict_servers(R_need(task[t].alias) - R_free,
                                V_need(task[t].alias) - V_free)
           at == [task[t] EXCEPT !.R_free = R_free, !.V_free = V_free]
       IN  task' = [task EXCEPT ![t] =
                IF ~Short(task[t].alias, R_free, V_free)
                THEN [at EXCEPT !.pc = "spawn"]
                ELSE IF sel = <<>>
                     THEN Finish(t, "EvictionImpossible", 0)
                     ELSE [at EXCEPT !.evicted = sel, !.ei = 1, !.pc = "evict"]]
    /\ UNCHANGED <<servers, running_servers>>
    /\ Unchanged_machine

\* Faulty variant: stop_and_wait does not assign stopping before stop().
EvictBegin_NoStopping(t) ==
    /\ task[t].pc = "evict"
    /\ OthersSuspended(t)
    /\ running_servers' = RemoveEvicted(running_servers, task[t].evicted[task[t].ei])
    /\ task' = [task EXCEPT ![t].pc = "stopping"]
    /\ UNCHANGED servers
    /\ Unchanged_machine

\* One round of the eviction loop up to the await in stop_and_wait: the entry
\* is removed, then status <- stopping and stop() is called.
EvictBegin(t) ==
    /\ task[t].pc = "evict"
    /\ OthersSuspended(t)
    /\ LET e == task[t].evicted[task[t].ei]
       IN  /\ running_servers' = RemoveEvicted(running_servers, e)
           /\ servers' = [servers EXCEPT ![e].status = "stopping"]
    /\ task' = [task EXCEPT ![t].pc = "stopping"]
    /\ Unchanged_machine

\* Faulty variant: the stop is not awaited, the loop goes on while the server
\* is still stopping.
EvictEnd_NoWait(t) ==
    /\ task[t].pc = "stopping"
    /\ OthersSuspended(t)
    /\ task' = [task EXCEPT ![t] =
            IF task[t].ei < Len(task[t].evicted)
            THEN [task[t] EXCEPT !.ei = task[t].ei + 1, !.pc = "evict"]
            ELSE [task[t] EXCEPT !.pc = "recheck"]]
    /\ UNCHANGED <<servers, running_servers>>
    /\ Unchanged_machine

\* stop() has cleared the process, check_running() is false, status <- stopped.
EvictEnd(t) ==
    /\ task[t].pc = "stopping"
    /\ OthersSuspended(t)
    /\ LET e == task[t].evicted[task[t].ei]
       IN  servers' = [servers EXCEPT ![e].proc = "none", ![e].status = "stopped"]
    /\ task' = [task EXCEPT ![t] =
            IF task[t].ei < Len(task[t].evicted)
            THEN [task[t] EXCEPT !.ei = task[t].ei + 1, !.pc = "evict"]
            ELSE [task[t] EXCEPT !.pc = "recheck"]]
    /\ UNCHANGED running_servers
    /\ Unchanged_machine

\* Faulty variant: the usage is not recomputed after the eviction, the second
\* test sees the free amounts of the first.
Recheck_StaleUsage(t) ==
    /\ task[t].pc = "recheck"
    /\ OthersSuspended(t)
    /\ task' = [task EXCEPT ![t] =
            IF Short(task[t].alias, task[t].R_free, task[t].V_free)
            THEN Finish(t, "InfeasibleRequest", 0)
            ELSE [task[t] EXCEPT !.pc = "spawn"]]
    /\ UNCHANGED <<servers, running_servers>>
    /\ Unchanged_machine

\* The recheck after eviction and the second test of the free amounts.
Recheck(t) ==
    /\ task[t].pc = "recheck"
    /\ OthersSuspended(t)
    /\ LET used == get_current_usage
           R_free == total_ram_mb - used[1]
           V_free == total_vram_mb - used[2]
       IN  task' = [task EXCEPT ![t] =
                IF Short(task[t].alias, R_free, V_free)
                THEN Finish(t, "InfeasibleRequest", 0)
                ELSE [task[t] EXCEPT !.R_free = R_free, !.V_free = V_free,
                                     !.pc = "spawn"]]
    /\ UNCHANGED <<servers, running_servers>>
    /\ Unchanged_machine

\* Faulty variant: the new server is appended before start_and_wait.
SpawnBegin_AppendEarly(t) ==
    /\ task[t].pc = "spawn"
    /\ OthersSuspended(t)
    /\ LET port == get_free_port(task[t].alias.backend)
       IN  IF port = 0
           THEN /\ task' = [task EXCEPT ![t] = Finish(t, "NoFreePort", 0)]
                /\ UNCHANGED <<servers, running_servers>>
           ELSE /\ servers' = Append(servers,
                        [alias |-> task[t].alias, port |-> port,
                         status |-> "starting", proc |-> "none"])
                /\ running_servers' = Append(running_servers, Len(servers) + 1)
                /\ task' = [task EXCEPT ![t].srv = Len(servers) + 1,
                                        ![t].pc = "start"]
    /\ Unchanged_machine

\* get_free_port, create_server and the start of start_and_wait
\* (status <- starting) up to the await of start().
SpawnBegin(t) ==
    /\ task[t].pc = "spawn"
    /\ OthersSuspended(t)
    /\ LET port == get_free_port(task[t].alias.backend)
       IN  IF port = 0
           THEN /\ task' = [task EXCEPT ![t] = Finish(t, "NoFreePort", 0)]
                /\ UNCHANGED servers
           ELSE /\ servers' = Append(servers,
                        [alias |-> task[t].alias, port |-> port,
                         status |-> "starting", proc |-> "none"])
                /\ task' = [task EXCEPT ![t].srv = Len(servers) + 1,
                                        ![t].pc = "start"]
    /\ UNCHANGED running_servers
    /\ Unchanged_machine

\* Faulty variant: the server is appended once start() has returned, before
\* wait_until_ready().
Start_Append(t) ==
    /\ task[t].pc = "start"
    /\ OthersSuspended(t)
    /\ servers' = [servers EXCEPT ![task[t].srv].proc = "alive"]
    /\ task' = [task EXCEPT ![t].pc = "waiting"]
    /\ running_servers' = Append(running_servers, task[t].srv)
    /\ Unchanged_machine

\* start() has launched the process; wait_until_ready() polls.
Start(t) ==
    /\ task[t].pc = "start"
    /\ OthersSuspended(t)
    /\ servers' = [servers EXCEPT ![task[t].srv].proc = "alive"]
    /\ task' = [task EXCEPT ![t].pc = "waiting"]
    /\ UNCHANGED running_servers
    /\ Unchanged_machine

\* OllamaServer.start: "ollama serve" has been launched and the poll of
\* /v1/status or the warm-up request gives up; the TimeoutError leaves start,
\* start_and_wait and get_or_start_server.
StartTimeout(t) ==
    /\ task[t].pc = "start"
    /\ OthersSuspended(t)
    /\ task[t].alias.backend = "ollama"
    /\ servers' = [servers EXCEPT ![task[t].srv].proc = "alive"]
    /\ \E kind \in {"ApiReadinessTimeout", "WarmupTimeout"} :
           task' = [task EXCEPT ![t] = Finish(t, kind, 0)]
    /\ UNCHANGED running_servers
    /\ Unchanged_machine

\* Faulty variant: readiness is reported although the process is gone.
Ready_NoProbe(t) ==
    /\ task[t].pc = "waiting"
    /\ OthersSuspended(t)
    /\ servers' = [servers EXCEPT ![task[t].srv].status = "running"]
    /\ running_servers' = Append(running_servers, task[t].srv)
    /\ task' = [task EXCEPT ![t] = Finish(t, "spawned", task[t].srv)]
    /\ Unchanged_machine

\* /models answered 200: status <- running, append, return.
Ready(t) ==
    /\ task[t].pc = "waiting"
    /\ OthersSuspended(t)
    /\ check_running(task[t].srv)
    /\ servers' = [servers EXCEPT ![task[t].srv].status = "running"]
    /\ running_servers' = Append(running_servers, task[t].srv)
    /\ task' = [task EXCEPT ![t] = Finish(t, "spawned", task[t].srv)]
    /\ Unchanged_machine

\* No probe was answered 200: wait_until_ready raises TimeoutError, which
\* leaves start_and_wait and get_or_start_server.
ReadyTimeout(t) ==
    /\ task[t].pc = "waiting"
    /\ OthersSuspended(t)
    /\ task' = [task EXCEPT ![t] = Finish(t, "ReadinessTimeout", 0)]
    /\ UNCHANGED <<servers, running_servers>>
    /\ Unchanged_machine

\* AliasManager.get_alias: dict.get, None when the name is unknown.
get_alias(name) == IF name \in DOMAIN aliases THEN aliases[name] ELSE NoAlias

\* Faulty variant: an unknown name is served as alias "s".
_patched_create_unknown_AsDefault(t, name) ==
    /\ t \in callers
    /\ task[t].pc = "idle"
    /\ OthersSuspended(t)
    /\ Len(servers) < MaxServers
    /\ get_alias(name) = NoAlias
    /\ "s" \in DOMAIN aliases
    /\ task' = [task EXCEPT ![t] =
                    [IdleTask EXCEPT !.alias = aliases["s"], !.pc = "account"]]
    /\ UNCHANGED <<servers, running_servers>>
    /\ Unchanged_machine

\* _patched_create of LazyLlama and AsyncLazyLlama with a model name that the
\* registry does not have: AliasNotFoundError is raised before the manager
\* is called.
_patched_create_unknown(t, name) ==
    /\ t \in callers
    /\ task[t].pc = "idle"
    /\ OthersSuspended(t)
    /\ get_alias(name) = NoAlias
    /\ task' = [task EXCEPT ![t] = Finish(t, "AliasNotFoundError", 0)]
    /\ UNCHANGED <<servers, running_servers>>
    /\ Unchanged_machine

\* The process of a server exits on its own.
Crash(s) ==
    /\ s \in 1..Len(servers)
    /\ servers[s].proc = "alive"
    /\ Cardinality({d \in 1..Len(servers) : servers[d].proc = "dead"}) < MaxDead
    /\ servers' = [servers EXCEPT ![s].proc = "dead"]
    /\ UNCHANGED <<running_servers, task>>
    /\ Unchanged_machine

\* ----------------------------------------------------------- specification

InitHardware(m) ==
    /\ total_ram_mb = m.ram
    /\ total_vram_mb = m.vram
    /\ measure = m.models
    /\ cache_file = m.file
    /\ dir_ok = m.dir
    /\ LET items == _load_resource_cache(m.file, m.dir)
       IN  /\ resource_models = DictOf(items)
           /\ key_order = [i \in 1..Len(items) |-> items[i].key]
    /\ ext_bound = m.bound

\* The registry after the load of the machine's configuration sources.
InitMachine(m) ==
    /\ InitHardware(m)
    /\ aliases = [n \in {a.name : a \in m.registry} |->
                    CHOOSE a \in m.registry : a.name = n]

\* A fresh manager: nothing runs, nothing was measured.
InitManager ==
    /\ servers = <<>>
    /\ running_servers = <<>>
    /\ task = [t \in Tasks |-> IdleTask]
    /\ measured = <<>>
    /\ restarts = 0
    /\ add_log = <<>>

Init ==
    /\ \E m \in Machines : InitMachine(m)
    /\ InitManager
    /\ unit = NoUnit
    /\ callers = {1}

\* The program ends and starts again: a new ServerManager is constructed and
\* loads the cache file.  The server objects of the old manager are gone;
\* their processes were not stopped and keep their ports.
Restart ==
    /\ restarts < MaxRestarts
    /\ \A t \in Tasks : task[t].pc = "idle"
    /\ restarts' = restarts + 1
    /\ LET items == _load_resource_cache(cache_file, dir_ok)
       IN  /\ resource_models' = DictOf(items)
           /\ key_order' = [i \in 1..Len(items) |-> items[i].key]
    /\ measured' = <<>>
    /\ servers' = <<>>
    /\ running_servers' = <<>>
    /\ task' = [t \in Tasks |-> IdleTask]
    /\ ext_bound' = ext_bound \cup
          {servers[s].port : s \in {x \in 1..Len(servers) : servers[x].proc = "alive"}}
    /\ UNCHANGED <<total_ram_mb, total_vram_mb, aliases, callers, cache_file,
                   dir_ok, measure, add_log, unit>>

\* The steps of get_or_start_server and of the processes it started.
NextAdmission ==
    \/ \E t \in Tasks, name \in Names : Call(t, name)
    \/ \E t \in Tasks : Account(t)
    \/ \E t \in Tasks : EvictBegin(t)
    \/ \E t \in Tasks : EvictEnd(t)
    \/ \E t \in Tasks : Recheck(t)
    \/ \E t \in Tasks : SpawnBegin(t)
    \/ \E t \in Tasks : Start(t)
    \/ \E t \in Tasks : StartTimeout(t)
    \/ \E t \in Tasks : Ready(t)
    \/ \E t \in Tasks : ReadyTimeout(t)
    \/ \E s \in 1..MaxServers : Crash(s)

\* The client: a request is refused for its name or goes to the manager.
Next ==
    \/ \E t \in Tasks, name \in RareNames : _patched_create_unknown(t, name)
    \/ NextAdmission

\* One caller: admissions are serialised.
Spec == Init /\ [][Next]_vars

\* Two requests issued through AsyncLazyLlama on one event loop: each
\* _patched_create awaits get_or_start_server of the shared manager.
InitConc ==
    /\ \E m \in Machines : m.bound \subseteq {LlamaCppBasePort} /\ InitMachine(m)
    /\ InitManager
    /\ unit = NoUnit
    /\ callers = Tasks

SpecConc == InitConc /\ [][NextAdmission]_vars

\* One caller on a machine whose cache file starts missing, damaged or odd;
\* the program may be restarted.
InitCache ==
    /\ \E m \in CacheMachines : InitMachine(m)
    /\ InitManager
    /\ unit = NoUnit
    /\ callers = {1}

\* The backends start and keep running: the cache does not depend on them.
NextCache ==
    \/ \E t \in Tasks, name \in Names : Call(t, name)
    \/ \E t \in Tasks : Account(t)
    \/ \E t \in Tasks : EvictBegin(t)
    \/ \E t \in Tasks : EvictEnd(t)
    \/ \E t \in Tasks : Recheck(t)
    \/ \E t \in Tasks : SpawnBegin(t)
    \/ \E t \in Tasks : Start(t)
    \/ \E t \in Tasks : Ready(t)
    \/ Restart

SpecCache == InitCache /\ [][NextCache]_vars

\* ---------------------------------------------------------- alias registry

\* The fields of the pydantic model Alias.
AliasAttributes == {"name", "model", "n_ctx", "command_params"}

\* The constructor of AliasAlreadyExistsError formats existing_alias.backend
\* and new_alias.backend into its message before it calls Exception.__init__;
\* reading an attribute that the model does not have raises AttributeError,
\* and that is what leaves the raise statement.
AliasAlreadyExistsError(new_alias, existing_alias) ==
    IF "backend" \in AliasAttributes THEN "AliasAlreadyExistsError"
                                     ELSE "AttributeError"

add_alias(alias) ==
    /\ Len(add_log) < MaxAdds
    /\ IF alias.name \in DOMAIN aliases
       THEN /\ UNCHANGED aliases
            /\ IF aliases[alias.name] # alias
               THEN add_log' = Append(add_log,
                        [alias |-> alias,
                         raised |-> AliasAlreadyExistsError(
                                        alias, aliases[alias.name])])
               ELSE add_log' = Append(add_log,
                        [alias |-> alias, raised |-> "none"])
       ELSE /\ aliases' = [n \in DOMAIN aliases \cup {alias.name} |->
                              IF n = alias.name THEN alias ELSE aliases[n]]
            /\ add_log' = Append(add_log, [alias |-> alias, raised |-> "none"])
    /\ UNCHANGED <<total_ram_mb, total_vram_mb, resource_models, ext_bound,
                   servers, running_servers, task, callers, key_order,
                   cache_file, dir_ok, measure, measured, restarts, unit>>

\* An AliasManager whose registry is empty (the fixture of the tests, or the
\* start of _load_starting_aliases), on any machine.
InitAlias ==
    /\ \E m \in Machines : InitHardware(m)
    /\ aliases = <<>>
    /\ InitManager
    /\ unit = NoUnit
    /\ callers = {}

NextAlias == \E alias \in SourceAliases : add_alias(alias)

SpecAlias == InitAlias /\ [][NextAlias]_vars

\* ------------------------------------------------------- server lifecycle
\* One server object of each backend variant, with the methods of BaseServer,
\* CommandServer and OllamaServer called on it one after the other.  A
\* process is [state, term, kill]: whether it runs, and whether terminate()
\* and kill() were sent to it.

Variants == {"command", "llamacpp", "ollama"}
CommandVariants == {"command", "llamacpp"}

\* Timeouts given to wait_until_ready, in tenths of a second.
Timeouts == {0, 3, PollPeriod, 12, DefaultTimeout}

NewProc == [state |-> "running", term |-> FALSE, kill |-> FALSE]

\* CommandServer.check_running and OllamaServer.check_running: the handle is
\* not None and its returncode is None.
Server_check_running(u) ==
    u.handle # 0 /\ u.procs[u.handle].state = "running"

Unchanged_manager ==
    UNCHANGED <<total_ram_mb, total_vram_mb, resource_models, ext_bound,
                aliases, servers, running_servers, task, callers, key_order,
                cache_file, dir_ok, measure, measured, restarts, add_log>>

\* A method is entered: the counters of the previous one are forgotten.
Enter(op, pc) ==
    [unit EXCEPT !.op = op, !.pc = pc, !.timeout = 0, !.probes = 0, !.last = "",
                 !.stops = 0, !.polls = 0, !.raised = "none",
                 !.steps = <<>>, !.api_polls = 0, !.warmups = 0]

\* The method called from outside returns or raises.
Done(u, raised) == [u EXCEPT !.pc = "idle", !.raised = raised]

\* int(timeout / 0.5): the division by 0.5 is exact in floating point, and
\* int truncates a non-negative quotient downwards.
Probes(timeout) == timeout \div PollPeriod

\* Faulty variant: the status is running as soon as start() has returned.
AfterStart_RunningEarly(u) ==
    IF u.op = "start_and_wait"
    THEN [u EXCEPT !.pc = "probe", !.timeout = DefaultTimeout,
                   !.status = "running"]
    ELSE Done(u, "returned")

\* start() has returned: start_and_wait goes on to wait_until_ready().
AfterStart(u) ==
    IF u.op = "start_and_wait"
    THEN [u EXCEPT !.pc = "probe", !.timeout = DefaultTimeout]
    ELSE Done(u, "returned")

\* wait_until_ready() has returned: start_and_wait assigns running.
AfterReady(u) ==
    IF u.op = "start_and_wait"
    THEN Done([u EXCEPT !.status = "running"], "returned")
    ELSE Done(u, "returned")

\* Faulty variant: stop_and_wait assigns stopped without asking check_running.
AfterStop_NoPoll(u) ==
    IF u.op = "stop_and_wait"
    THEN Done([u EXCEPT !.status = "stopped"], "returned")
    ELSE Done(u, "returned")

\* stop() has returned: stop_and_wait goes on to poll check_running().
AfterStop(u) ==
    IF u.op = "stop_and_wait" THEN [u EXCEPT !.pc = "poll"]
    ELSE Done(u, "returned")

\* The methods as they are called from outside.
call_start ==
    /\ unit.pc = "idle"
    /\ Len(unit.procs) < MaxProcs
    /\ unit' = Enter("start", "start")
    /\ Unchanged_manager

call_stop ==
    /\ unit.pc = "idle"
    /\ unit' = Enter("stop", "stop")
    /\ Unchanged_manager

start_and_wait ==
    /\ unit.pc = "idle"
    /\ Len(unit.procs) < MaxProcs
    /\ unit' = [Enter("start_and_wait", "start") EXCEPT !.status = "starting"]
    /\ Unchanged_manager

stop_and_wait ==
    /\ unit.pc = "idle"
    /\ unit' = [Enter("stop_and_wait", "stop") EXCEPT !.status = "stopping"]
    /\ Unchanged_manager

wait_until_ready(timeout) ==
    /\ unit.pc = "idle"
    /\ unit' = [Enter("wait_until_ready", "probe") EXCEPT !.timeout = timeout]
    /\ Unchanged_manager

\* CommandServer.start, which LlamaCppServer inherits: nothing when the
\* process is live, else build_command (which raises ValueError when the
\* llama.cpp model file is not found) and create_subprocess_shell.
CommandServer_start ==
    /\ unit.pc = "start"
    /\ unit.variant \in CommandVariants
    /\ IF Server_check_running(unit)
       THEN unit' = AfterStart(unit)
       ELSE \/ /\ unit.variant = "llamacpp"
               /\ unit' = Done(unit, "ValueError")
            \/ unit' = AfterStart(
                  [unit EXCEPT !.procs = Append(unit.procs, NewProc),
                               !.handle = Len(unit.procs) + 1])
    /\ Unchanged_manager

\* OllamaServer.start: `ollama serve` is spawned and its handle and pid are
\* stored, whatever they held; then _wait_for_api_ready, _ollama_create and
\* _load_model_via_dummy_request, of which the first and the last raise
\* TimeoutError when the daemon does not answer.
OllamaServer_start ==
    /\ unit.pc = "start"
    /\ unit.variant = "ollama"
    /\ LET spawned == [unit EXCEPT !.procs = Append(unit.procs, NewProc),
                                   !.handle = Len(unit.procs) + 1]
       IN  \/ unit' = AfterStart(spawned)
           \/ unit' = Done(spawned, "TimeoutError")
    /\ Unchanged_manager

\* OllamaServer.start step by step.  unit.steps lists the steps begun so far,
\* each with its outcome: "begun", "ok" or "failed".
ApiPolls == 30
Warmups == 20

ApiReadinessTimeout == "TimeoutError: Ollama API did not become ready"
WarmupTimeout == "TimeoutError: Model did not load via dummy request"

Begin(u, name) == [u EXCEPT !.steps = Append(u.steps, <<name, "begun">>)]
End(u, outcome) == [u EXCEPT !.steps[Len(u.steps)][2] = outcome]

\* Step 1: create_subprocess_shell of `ollama serve`; the handle and the pid
\* are stored.  The fork can fail with OSError.
OllamaServer_start_spawn ==
    /\ unit.pc = "start"
    /\ unit.variant = "ollama"
    /\ LET begun == Begin(unit, "spawn")
       IN  \/ unit' = [End(begun, "ok") EXCEPT
                          !.procs = Append(unit.procs, NewProc),
                          !.handle = Len(unit.procs) + 1,
                          !.pc = "api"]
           \/ unit' = Done(End(begun, "failed"), "OSError")
    /\ Unchanged_manager

\* Step 2, one round of the loop of _wait_for_api_ready or the raise after
\* it: GET /v1/status answers 200 (return), answers something else or fails
\* with a ClientError (sleep and go on).  The loop counter is a local: it is
\* gone when the function returns.
OllamaServer_wait_for_api_ready ==
    /\ unit.pc = "api"
    /\ LET begun == IF unit.api_polls = 0 THEN Begin(unit, "poll") ELSE unit
       IN  IF unit.api_polls < ApiPolls
           THEN \E r \in {"200", "503", "ClientError"} :
                  LET polled == [begun EXCEPT !.api_polls = unit.api_polls + 1,
                                              !.last = r]
                  IN  unit' = IF r = "200"
                              THEN [End(polled, "ok") EXCEPT
                                       !.api_polls = 0, !.last = "",
                                       !.pc = "create"]
                              ELSE polled
           ELSE unit' = Done(End(begun, "failed"), ApiReadinessTimeout)
    /\ Unchanged_manager

\* Step 3, _ollama_create: the Modelfile is written (open can raise OSError)
\* and `ollama create` runs to its end; start() goes on whatever its return
\* code is, which nothing reads.
OllamaServer_ollama_create ==
    /\ unit.pc = "create"
    /\ LET begun == Begin(unit, "create")
       IN  \/ unit' = Done(End(begun, "failed"), "OSError")
           \/ \E returncode \in {0, 1} :
                 unit' = [End(begun, IF returncode = 0 THEN "ok" ELSE "failed")
                            EXCEPT !.pc = "warm"]
    /\ Unchanged_manager

\* Step 4, one round of the loop of _load_model_via_dummy_request or the raise
\* after it: POST /v1/chat/completions answers 200 (return), answers
\* something else or fails with a ClientError (sleep and go on).
OllamaServer_load_model_via_dummy_request ==
    /\ unit.pc = "warm"
    /\ LET begun == IF unit.warmups = 0 THEN Begin(unit, "warm") ELSE unit
       IN  IF unit.warmups < Warmups
           THEN \E r \in {"200", "404", "ClientError"} :
                  LET tried == [begun EXCEPT !.warmups = unit.warmups + 1,
                                             !.last = r]
                  IN  unit' = IF r = "200"
                              THEN AfterStart([End(tried, "ok") EXCEPT
                                                  !.warmups = 0, !.last = ""])
                              ELSE tried
           ELSE unit' = Done(End(begun, "failed"), WarmupTimeout)
    /\ Unchanged_manager

\* Faulty variant: one probe more than range(int(timeout / 0.5)) gives.
wait_until_ready_probe_OneMore ==
    /\ unit.pc = "probe"
    /\ IF unit.probes <= Probes(unit.timeout)
       THEN \E r \in {"200", "503", "ClientError"} :
              LET probed == [unit EXCEPT !.probes = unit.probes + 1, !.last = r]
              IN  unit' = IF r = "200" THEN AfterReady(probed) ELSE probed
       ELSE unit' = Done(unit, "TimeoutError")
    /\ Unchanged_manager

\* One round of the loop of wait_until_ready, or the raise after it: GET
\* /models answers 200 (return), answers something else or fails with a
\* ClientError (sleep and go on).
wait_until_ready_probe ==
    /\ unit.pc = "probe"
    /\ IF unit.probes < Probes(unit.timeout)
       THEN \E r \in {"200", "503", "ClientError"} :
              LET probed == [unit EXCEPT !.probes = unit.probes + 1, !.last = r]
              IN  unit' = IF r = "200" THEN AfterReady(probed) ELSE probed
       ELSE unit' = Done(unit, "TimeoutError")
    /\ Unchanged_manager

\* CommandServer.stop up to its first await: terminate() when the process is
\* live, else the handle is cleared at once.
CommandServer_stop ==
    /\ unit.pc = "stop"
    /\ unit.variant \in CommandVariants
    /\ LET called == [unit EXCEPT !.stops = unit.stops + 1]
       IN  IF Server_check_running(unit)
           THEN unit' = [called EXCEPT !.procs[unit.handle].term = TRUE,
                                       !.pc = "grace"]
           ELSE unit' = AfterStop([called EXCEPT !.handle = 0])
    /\ Unchanged_manager

\* Faulty variant: after the grace period the handle is dropped, no kill.
CommandServer_stop_wait_NoKill ==
    /\ unit.pc = "grace"
    /\ unit' = AfterStop([unit EXCEPT !.handle = 0])
    /\ Unchanged_manager

\* wait_for(process.wait(), timeout=5) ends: the process has exited, or the
\* five seconds are over and kill() is sent.
CommandServer_stop_wait ==
    /\ unit.pc = "grace"
    /\ IF unit.procs[unit.handle].state = "exited"
       THEN unit' = AfterStop([unit EXCEPT !.handle = 0])
       ELSE unit' = [unit EXCEPT !.procs[unit.handle].kill = TRUE,
                                 !.pc = "killed"]
    /\ Unchanged_manager

\* process.wait() after the kill returns; the handle is cleared.
CommandServer_stop_killed ==
    /\ unit.pc = "killed"
    /\ unit.procs[unit.handle].state = "exited"
    /\ unit' = AfterStop([unit EXCEPT !.handle = 0])
    /\ Unchanged_manager

\* The signal reaches the process of the pid if there still is one
\* (NoSuchProcess is swallowed).
Terminated(u) ==
    IF Server_check_running(u)
    THEN [u EXCEPT !.procs[u.handle].term = TRUE]
    ELSE u

\* Faulty variant: the handle is kept after the terminate.
OllamaServer_stop_KeepHandle ==
    /\ unit.pc = "stop"
    /\ unit.variant = "ollama"
    /\ unit' = AfterStop([Terminated(unit) EXCEPT !.stops = unit.stops + 1])
    /\ Unchanged_manager

\* OllamaServer.stop: terminate to the pid and its children, then the pid
\* and the handle are cleared; nothing is awaited.
OllamaServer_stop ==
    /\ unit.pc = "stop"
    /\ unit.variant = "ollama"
    /\ unit' = AfterStop([Terminated(unit) EXCEPT !.stops = unit.stops + 1,
                                                  !.handle = 0])
    /\ Unchanged_manager

\* One round of the loop of stop_and_wait: check_running() is asked; true
\* sleeps and asks again, false assigns stopped.
stop_and_wait_poll ==
    /\ unit.pc = "poll"
    /\ LET polled == [unit EXCEPT !.polls =
                        IF unit.polls < MaxPolls THEN unit.polls + 1
                                                 ELSE unit.polls]
       IN  unit' = IF Server_check_running(unit) THEN polled
                   ELSE Done([polled EXCEPT !.status = "stopped"], "returned")
    /\ Unchanged_manager

\* A process exits: by itself, on the terminate or on the kill.
ProcExit(p) ==
    /\ p \in 1..Len(unit.procs)
    /\ unit.procs[p].state = "running"
    /\ unit' = [unit EXCEPT !.procs[p].state = "exited"]
    /\ Unchanged_manager

\* A killed process exits.
KilledExit == \E p \in 1..Len(unit.procs) : unit.procs[p].kill /\ ProcExit(p)

InitUnit ==
    /\ \E m \in Machines : m.bound = {} /\ m.ram = 200 /\ InitMachine(m)
    /\ InitManager
    /\ callers = {}
    /\ \E v \in Variants : unit = [NoUnit EXCEPT !.variant = v]

\* The steps of a stop() and of the loop after it.
StopSteps ==
    \/ CommandServer_stop
    \/ CommandServer_stop_wait
    \/ CommandServer_stop_killed
    \/ OllamaServer_stop
    \/ stop_and_wait_poll

NextUnit ==
    \/ call_start
    \/ call_stop
    \/ start_and_wait
    \/ stop_and_wait
    \/ \E timeout \in Timeouts : wait_until_ready(timeout)
    \/ CommandServer_start
    \/ OllamaServer_start
    \/ wait_until_ready_probe
    \/ StopSteps
    \/ \E p \in 1..MaxProcs : ProcExit(p)

SpecUnit == InitUnit /\ [][NextUnit]_vars

\* The event loop runs a coroutine that can go on, the timer of wait_for and
\* the sleeps fire, and a process that was sent SIGKILL exits.
SpecUnitFair ==
    /\ InitUnit
    /\ [][NextUnit]_vars
    /\ WF_vars(StopSteps)
    /\ WF_vars(wait_until_ready_probe)
    /\ WF_vars(KilledExit)

\* An OllamaServer whose start() and start_and_wait() are followed step by
\* step.
InitOllama ==
    /\ \E m \in Machines : m.bound = {} /\ m.ram = 200 /\ InitMachine(m)
    /\ InitManager
    /\ callers = {}
    /\ unit = [NoUnit EXCEPT !.variant = "ollama"]

NextOllama ==
    \/ call_start
    \/ start_and_wait
    \/ OllamaServer_start_spawn
    \/ OllamaServer_wait_for_api_ready
    \/ OllamaServer_ollama_create
    \/ OllamaServer_load_model_via_dummy_request
    \/ wait_until_ready_probe
    \/ \E p \in 1..MaxProcs : ProcExit(p)

SpecOllama == InitOllama /\ [][NextOllama]_vars

\* ------------------------------------------------------------ properties

Entries == {running_servers[i] : i \in 1..Len(running_servers)}

Succeeded(r) == r.kind \in {"reused", "spawned"}

\* C1. Reuse is idempotent: when the caller's previous admission of an alias
\* returned server s and s is still live, admitting the same alias again
\* returns s at once; no server object is created and the running set is
\* unchanged.
C1_ReuseIdempotent ==
    [][\A t \in Tasks, n \in Names :
        (/\ Call(t, n)
         /\ Succeeded(task[t].result)
         /\ task[t].result.alias = aliases[n]
         /\ check_running(task[t].result.server))
        => (/\ task'[t].pc = "idle"
            /\ task'[t].result = [kind |-> "reused", alias |-> aliases[n],
                                  server |-> task[t].result.server]
            /\ servers' = servers
            /\ running_servers' = running_servers)]_vars

\* A repeated admission returned the server that was spawned for this alias.
C1_Witness ==
    \E t \in Tasks :
        /\ task[t].result.kind = "reused"
        /\ servers[task[t].result.server].alias = task[t].result.alias

\* C2. Compatibility asymmetry.  A call is answered by an entry of the running
\* set exactly when some live entry has the same model_name and backend, the
\* same command_params and an n_ctx not below the request's; the server
\* returned is such an entry (whatever its alias name); otherwise the call goes
\* on to accounting.  An admission that spawns without evicting appends the new
\* server and keeps every earlier entry.
Serves(s, request) ==
    /\ servers[s].proc = "alive"
    /\ servers[s].alias.model_name = request.model_name
    /\ servers[s].alias.backend = request.backend
    /\ servers[s].alias.command_params = request.command_params
    /\ request.n_ctx <= servers[s].alias.n_ctx

LiveEntries == SelectSeq(running_servers, IsLive)

\* C3 as stated. After a successful return the predicted RAM and VRAM summed
\* over all entries of the running set are within the totals.
C3_AllEntriesWithinTotals ==
    \A t \in Tasks :
        (task[t].pc = "idle" /\ Succeeded(task[t].result))
        => /\ SumRAM(running_servers) <= total_ram_mb
           /\ SumVRAM(running_servers) <= total_vram_mb

\* What the accounting does keep: in every reachable state the predicted RAM
\* and VRAM summed over the entries whose check_running() is true are within
\* the totals.
C3_LiveEntriesWithinTotals ==
    /\ SumRAM(LiveEntries) <= total_ram_mb
    /\ SumVRAM(LiveEntries) <= total_vram_mb

\* A spawn has returned while an entry whose process has exited is still in
\* the set, and the sums over all entries exceed a total.
C3_Witness ==
    \E t \in Tasks :
        /\ task[t].pc = "idle"
        /\ task[t].result.kind = "spawned"
        /\ check_running(task[t].result.server)
        /\ \/ SumRAM(running_servers) > total_ram_mb
           \/ SumVRAM(running_servers) > total_vram_mb

\* C4. Scenario S2 (RAM = 400, VRAM = 800, model (100, 0.1, 200, 0.2)): A with
\* n_ctx = 3000 has been admitted and neither crashed nor timed out; once the
\* admission of B with n_ctx = 3500 is over, B is returned with status
\* running, the running set has exactly one entry and A is not running.
C4_ScenarioS2 ==
    \A t \in Tasks :
        (/\ IsS2
         /\ Len(servers) >= 1
         /\ servers[1].alias = AliasA
         /\ servers[1].status # "starting"
         /\ servers[1].proc # "dead"
         /\ \A s \in 2..Len(servers) : servers[s].alias = AliasB
         /\ task[t].pc = "idle"
         /\ task[t].result.alias = AliasB)
        => /\ task[t].result.kind = "spawned"
           /\ servers[task[t].result.server].status = "running"
           /\ Len(running_servers) = 1
           /\ ~check_running(1)

Range(seq) == {seq[i] : i \in 1..Len(seq)}

RemoveAt(seq, k) == SubSeq(seq, 1, k - 1) \o SubSeq(seq, k + 1, Len(seq))

\* The deficits the admission of task t handed to evict_servers.
R_deficit(t) == R_need(task[t].alias) - task[t].R_free
V_deficit(t) == V_need(task[t].alias) - task[t].V_free

Covers(seq, t) ==
    SumRAM(seq) >= R_deficit(t) /\ SumVRAM(seq) >= V_deficit(t)

\* evict_servers has just returned task[t].evicted; nothing is stopped yet.
JustSelected(t) == task[t].pc = "evict" /\ task[t].ei = 1

StatusRunningEntries == {s \in Entries : servers[s].status = "running"}

\* C5 as stated. Every selection returned by evict_servers covers both
\* deficits (a selection that cannot is replaced by EvictionImpossible).
C5_SelectionCoversDeficits ==
    \A t \in Tasks : JustSelected(t) => Covers(task[t].evicted, t)

\* C5 amended. A selection returned by evict_servers is a non-empty list of
\* distinct entries with status running that covers both deficits or holds
\* every such entry; EvictionImpossible is raised exactly when resources are
\* short and no entry has status running, and the step that selects or raises
\* stops and removes nothing.
C5_SelectionCoversOrIsEverything ==
    [][\A t \in Tasks :
        Account(t) =>
          LET sel == task'[t].evicted
              short == \/ total_ram_mb - SumRAM(LiveEntries) < R_need(task[t].alias)
                       \/ total_vram_mb - SumVRAM(LiveEntries) < V_need(task[t].alias)
          IN  /\ task'[t].pc = "evict" =>
                    /\ sel # <<>>
                    /\ Range(sel) \subseteq StatusRunningEntries
                    /\ Cardinality(Range(sel)) = Len(sel)
                    /\ \/ /\ SumRAM(sel) >= R_need(task[t].alias) - task'[t].R_free
                          /\ SumVRAM(sel) >= V_need(task[t].alias) - task'[t].V_free
                       \/ Range(sel) = StatusRunningEntries
              /\ task'[t].result.kind = "EvictionImpossible"
                    <=> (short /\ StatusRunningEntries = {})
              /\ UNCHANGED <<servers, running_servers>>]_vars

\* evict_servers returned a selection that does not cover the deficits.
C5_Witness ==
    \E t \in Tasks : JustSelected(t) /\ ~Covers(task[t].evicted, t)

\* C6 as stated. No selected server can be dropped from the selection with
\* both deficits still covered by the rest.
C6_NoUnnecessaryEviction ==
    \A t \in Tasks :
        JustSelected(t) =>
            \A k \in 1..Len(task[t].evicted) :
                ~Covers(RemoveAt(task[t].evicted, k), t)

\* C6 amended. The selection is the shortest prefix of the traversal order
\* that covers both deficits: no shorter non-empty prefix of it covers them,
\* so the server selected last is needed.
C6_ShortestCoveringPrefix ==
    \A t \in Tasks :
        JustSelected(t) =>
            \A k \in 1..(Len(task[t].evicted) - 1) :
                ~Covers(SubSeq(task[t].evicted, 1, k), t)

\* A covering selection of two servers whose first one could have stayed.
C6_Witness ==
    \E t \in Tasks :
        /\ JustSelected(t)
        /\ Len(task[t].evicted) = 2
        /\ Covers(task[t].evicted, t)
        /\ Covers(Tail(task[t].evicted), t)

DistinctPorts ==
    \A i, j \in 1..Len(running_servers) :
        i # j => servers[running_servers[i]].port # servers[running_servers[j]].port

StatusRunningOrStarting ==
    \A s \in Entries : servers[s].status \in {"running", "starting"}

NoExitedEntry == \A s \in Entries : servers[s].proc # "dead"

C8_InfeasibleOnlyIfTooBig ==
    \A t \in Tasks :
        (task[t].pc = "idle" /\ task[t].result.kind = "InfeasibleRequest")
        => \/ R_need(task[t].result.alias) > total_ram_mb
           \/ V_need(task[t].result.alias) > total_vram_mb

\* C9. Invariant I1: no two entries of the running set have the same port.
C9_NoSharedPort == DistinctPorts

\* Two entries of one backend, one of them with an exited process.
C9_Witness ==
    \E s1, s2 \in Entries :
        /\ s1 # s2
        /\ servers[s1].proc = "dead"
        /\ servers[s1].alias.backend = servers[s2].alias.backend
        /\ check_running(s2)

\* C10. Invariant I2: every entry of the running set has status running or
\* starting, and no server with status stopping or stopped is an entry.
C10_EntriesRunningOrStarting ==
    /\ StatusRunningOrStarting
    /\ \A s \in 1..Len(servers) :
          servers[s].status \in {"stopping", "stopped"} => s \notin Entries

\* A server is being stopped while other servers are still entries.
C10_Witness ==
    \E s \in 1..Len(servers) :
        /\ servers[s].status = "stopping"
        /\ s \notin Entries
        /\ running_servers # <<>>

\* C11. Invariant I3: every entry of the running set whose status is running
\* has check_running() true, also after its process has exited on its own.
C11_RunningEntriesAreLive ==
    \A s \in Entries : servers[s].status = "running" => check_running(s)

\* C11 amended. A server has status running and check_running() false only
\* because its process exited on its own while the status was running (and it
\* stays so until it is evicted): status becomes running only on a live
\* process, and the manager never stops a process and leaves status running.
C11_OnlyExitsBreakLiveness ==
    [][\A s \in 1..Len(servers') :
        (servers'[s].status = "running" /\ servers'[s].proc # "alive")
        => /\ s <= Len(servers)
           /\ servers[s].status = "running"
           /\ servers'[s].proc = "dead"]_vars

\* An entry with status running whose process has exited.
C11_Witness ==
    \E s \in Entries : servers[s].status = "running" /\ servers[s].proc = "dead"

LegalTransitions ==
    {<<"stopped", "starting">>, <<"starting", "running">>,
     <<"running", "stopping">>, <<"stopping", "stopped">>}

\* C12. Status machine: in every step every server keeps its status or takes
\* the next one of stopped, starting, running, stopping, stopped; a server is
\* constructed stopped and start_and_wait is applied to it at once, so it
\* appears with status starting; stop_and_wait is applied only to a server
\* whose status is running.
C12_StatusMachine ==
    [][/\ Len(servers') >= Len(servers)
       /\ \A s \in 1..Len(servers) :
             \/ servers'[s].status = servers[s].status
             \/ <<servers[s].status, servers'[s].status>> \in LegalTransitions
       /\ \A s \in (Len(servers) + 1)..Len(servers') :
             servers'[s].status = "starting"
       /\ \A t \in Tasks :
             EvictBegin(t) =>
                servers[task[t].evicted[task[t].ei]].status = "running"]_vars

\* One server has gone through the whole cycle and an admission has failed
\* while another server is running.
C12_Witness ==
    \E s1, s2 \in 1..Len(servers), t \in Tasks :
        /\ servers[s1].status = "stopped"
        /\ servers[s2].status = "running"
        /\ task[t].pc = "idle"
        /\ ~Succeeded(task[t].result)
        /\ task[t].result.kind # "none"

\* C13. Ordering within one admission: accounting starts only after the reuse
\* scan has found no live compatible entry; the servers to evict are chosen in
\* the accounting step and not changed afterwards; and when port allocation
\* and the start of the new server begin, and as long as the start lasts,
\* every server evicted by this admission has status stopped and no process.
C13_OrderingWithinAdmission ==
    [][\A t \in Tasks :
        /\ (task'[t].pc = "account" /\ task[t].pc # "account")
              => /\ task[t].pc = "idle"
                 /\ FirstCompatible(task'[t].alias) = 0
        /\ task'[t].evicted # task[t].evicted
              => \/ task[t].pc = "account" /\ task'[t].pc = "evict"
                 \/ task'[t].pc \in {"idle", "account"} /\ task'[t].evicted = <<>>
        /\ task[t].pc \in {"evict", "stopping", "recheck"} => task[t].evicted # <<>>
        /\ task[t].pc \in {"spawn", "start", "waiting"}
              => \A e \in Range(task[t].evicted) :
                    servers[e].status = "stopped" /\ ~check_running(e)]_vars

\* The new server is being started after an eviction.
C13_Witness ==
    \E t \in Tasks :
        /\ task[t].pc = "start"
        /\ task[t].evicted # <<>>
        /\ servers[task[t].srv].status = "starting"

StartFailures == {"ReadinessTimeout", "ApiReadinessTimeout", "WarmupTimeout"}

\* C14. When start_and_wait fails during an admission (readiness, Ollama API
\* readiness or warm-up timeout), the process that the admission spawned is
\* not alive once get_or_start_server has raised.
C14_FailedStartIsCleanedUp ==
    [][\A t \in Tasks :
        (ReadyTimeout(t) \/ StartTimeout(t))
        => /\ task'[t].result.kind \in StartFailures
           /\ ~(servers'[task[t].srv].proc = "alive")]_vars

\* C15. When the readiness probe never answers 200, get_or_start_server fails
\* with ReadinessTimeout, the running set is as before and does not hold the
\* failed server (no server with status starting is an entry), and the caller
\* is back outside the admission, free to admit again.
C15_TimeoutDoesNotPollute ==
    [][/\ \A t \in Tasks :
            ReadyTimeout(t)
            => /\ task'[t].pc = "idle"
               /\ task'[t].result.kind = "ReadinessTimeout"
               /\ running_servers' = running_servers
               /\ \A i \in 1..Len(running_servers') :
                     running_servers'[i] # task[t].srv
       /\ \A i \in 1..Len(running_servers') :
            servers'[running_servers'[i]].status # "starting"]_vars

\* After a readiness timeout a later admission of the same alias has spawned a
\* server, and the server that timed out is not an entry.
C15_Witness ==
    \E s1, s2 \in 1..Len(servers), t \in Tasks :
        /\ s1 < s2
        /\ servers[s1].status = "starting"
        /\ servers[s1].alias = servers[s2].alias
        /\ s1 \notin Entries
        /\ task[t].pc = "idle"
        /\ task[t].result = [kind |-> "spawned", alias |-> servers[s2].alias,
                             server |-> s2]

\* C16. Requests issued concurrently through AsyncLazyLlama: at most one
\* get_or_start_server call is between its usage snapshot and the end of its
\* spawn, so no admission runs while another is suspended in stop_and_wait or
\* start_and_wait.
C16_AdmissionsSerialised ==
    Cardinality({t \in Tasks :
        task[t].pc \in {"evict", "stopping", "recheck", "spawn", "start",
                        "waiting"}}) <= 1

\* The file holds the key with this value.
InFile(k, v) ==
    /\ cache_file.kind = "json"
    /\ \E i \in 1..Len(cache_file.entries) :
          cache_file.entries[i] = [key |-> key_str(k), vals |-> v]

\* The last persist wrote the file from the cache as it is now.
FileIsCurrent ==
    cache_file = JsonFile(DumpItems(Items(resource_models, key_order), <<>>))

\* C17. Cache round trip: a manager constructed from the file that the
\* persist wrote from the present cache has every key of that cache with the
\* same tuple, so that get_or_measure returns it without measuring.
C17_CacheRoundTrip ==
    [][(Restart /\ FileIsCurrent)
        => \A k \in DOMAIN resource_models :
              /\ k \in DOMAIN resource_models'
              /\ resource_models'[k] = resource_models[k]]_vars

\* C18. Invariant I5: after a successful admission every entry of the
\* in-memory cache is in the file with the same value.
C18_FileHoldsMemory ==
    \A t \in Tasks :
        (task[t].pc = "idle" /\ Succeeded(task[t].result))
        => \A k \in DOMAIN resource_models : InFile(k, resource_models[k])

\* C19. The persistence layer never raises: no call ends with an exception of
\* the persist, and a manager whose load failed starts with an empty cache.
C19_PersistenceNeverRaises ==
    /\ \A t \in Tasks : task[t].result.kind # "OSError"
    /\ (measured = <<>> /\ (cache_file.kind # "json" \/ ~dir_ok))
          => DOMAIN resource_models = {}

\* What C19 says of the load alone, which the code does: a manager constructed
\* from a missing or damaged file, or without a cache directory, has an empty
\* cache, and the lines of a readable file that the load skips are left out.
C19_LoadIsTolerant ==
    (measured = <<>>)
        => /\ (cache_file.kind # "json" \/ ~dir_ok) => DOMAIN resource_models = {}
           /\ \A k \in DOMAIN resource_models :
                 InFile(k, resource_models[k]) /\ k[1] \in BackendValues
                     /\ Len(resource_models[k]) = 4

NoDuplicateKey(seq) ==
    \A i, j \in 1..Len(seq) : i # j => Footprint(seq[i]) # Footprint(seq[j])

\* C20. get_or_measure is keyed by backend, model id and parameters, not by
\* n_ctx or name.  A call that gets past the reuse scan finds the tuple of its
\* key when the cache has the key, whatever the alias's name and n_ctx, and
\* then changes neither cache nor file nor calls measure; otherwise it calls
\* measure once, installs the tuple under the key and runs the persist (the
\* file is then the cache as written, unless the write failed) before it goes
\* on.  measure is called at most once per key by one manager.
C20_KeyedByBackendModelParams ==
    [][\A t \in Tasks, n \in Names :
        Call(t, n) =>
          LET alias == aliases[n]
              k == <<alias.backend, alias.model_name, alias.command_params>>
              scanned == FirstCompatible(alias) = 0
              hit == k \in DOMAIN resource_models
          IN  /\ (~scanned \/ hit)
                    => UNCHANGED <<resource_models, key_order, cache_file, measured>>
              /\ (scanned /\ ~hit)
                    => /\ DOMAIN resource_models' = DOMAIN resource_models \cup {k}
                       /\ resource_models'[k] = measure_resource_model(alias)
                       /\ \A j \in DOMAIN resource_models :
                             resource_models'[j] = resource_models[j]
                       /\ measured' = Append(measured, alias)
                       /\ task'[t].pc = "account"
                            => \/ cache_file' = JsonFile(DumpItems(
                                      Items(resource_models', key_order'), <<>>))
                               \/ cache_file' = cache_file
                               \/ cache_file' = MalformedFile
              /\ scanned => k \in DOMAIN resource_models'
              /\ NoDuplicateKey(measured')]_vars

\* AliasC1 was measured; AliasC5, which differs from it in name and n_ctx, has
\* gone past the prediction on the cached tuple without a second measurement.
C20_Witness ==
    \E t \in Tasks :
        /\ task[t].alias = AliasC5
        /\ task[t].pc = "account"
        /\ measured = <<AliasC1>>
        /\ InFile(Footprint(AliasC1), resource_models[Footprint(AliasC1)])

BasePort(backend) ==
    IF backend = "llamacpp" THEN LlamaCppBasePort ELSE OllamaBasePort

\* The ports of the backend's range that no entry of the running set has and
\* on which a bind succeeds.
Qualifying(backend) ==
    {p \in BasePort(backend)..(BasePort(backend) + MaxTries - 1) :
        /\ \A s \in Entries : servers[s].port # p
        /\ p \notin ext_bound
        /\ \A s \in 1..Len(servers) :
              servers[s].proc = "alive" => servers[s].port # p}

\* C21. Port allocation: the step of an admission that calls get_free_port
\* gives the new server the smallest port of [base, base + 100) that no
\* tracked server has and that binds, or raises NoFreePort, exactly when
\* there is no such port, and creates nothing; it leaves the running set as
\* it is.
C21_PortAllocation ==
    [][\A t \in Tasks :
          SpawnBegin(t) =>
            LET q == Qualifying(task[t].alias.backend)
            IN  /\ running_servers' = running_servers
                /\ q = {} <=> task'[t].result.kind = "NoFreePort"
                /\ q = {} => servers' = servers
                /\ q # {} => /\ Len(servers') = Len(servers) + 1
                             /\ servers'[Len(servers')].port \in q
                             /\ \A x \in q : servers'[Len(servers')].port <= x]_vars

\* Port 8000 is held by another program and the llamacpp server runs on 8001,
\* next to an entry whose process has exited and whose port stays claimed.
C21_Witness ==
    \E s1, s2 \in Entries :
        /\ LlamaCppBasePort \in ext_bound
        /\ servers[s1].alias.backend = "llamacpp"
        /\ servers[s1].port = LlamaCppBasePort + 1
        /\ servers[s1].status = "running"
        /\ servers[s2].proc = "dead"
        /\ servers[s2].alias.backend = "ollama"

\* Every port of the range is taken and the admission ends with NoFreePort.
C21_WitnessNoFreePort ==
    \E t \in Tasks :
        /\ task[t].result.kind = "NoFreePort"
        /\ Qualifying("llamacpp") = {}

\* The first alias that add_alias was called with under the name, NoAlias if
\* there was no such call.
FirstAdded(log, name) ==
    LET at == {i \in 1..Len(log) : log[i].alias.name = name}
    IN  IF at = {} THEN NoAlias
        ELSE log[CHOOSE i \in at : \A j \in at : i <= j].alias

\* C22. The alias registry is first-writer-wins with conflict rejection:
\* add_alias inserts when the name is absent, does nothing when an equal
\* alias is present, and raises AliasAlreadyExistsError and leaves the
\* registry as it is when the name is present with a different field; after
\* any sequence of adds get_alias gives the first alias added under a name,
\* or None.
C22_FirstWriterWins ==
    [][\A alias \in SourceAliases :
          add_alias(alias) =>
            LET last == add_log'[Len(add_log')]
                present == alias.name \in DOMAIN aliases
            IN  /\ ~present
                      => /\ last.raised = "none"
                         /\ DOMAIN aliases' = DOMAIN aliases \cup {alias.name}
                         /\ aliases'[alias.name] = alias
                         /\ \A n \in DOMAIN aliases : aliases'[n] = aliases[n]
                /\ (present /\ aliases[alias.name] = alias)
                      => last.raised = "none" /\ aliases' = aliases
                /\ (present /\ aliases[alias.name] # alias)
                      => /\ last.raised = "AliasAlreadyExistsError"
                         /\ aliases' = aliases
                /\ \A n \in Names : get_alias(n)' = FirstAdded(add_log', n)]_vars

\* What holds of the registry whatever the conflicting add raises: the first
\* alias added under a name stays.
C22_FirstAliasStays ==
    \A n \in Names : get_alias(n) = FirstAdded(add_log, n)

\* An alias "s" was added and a second one with another context size was
\* refused.
C22_Witness ==
    \E i, j \in 1..Len(add_log) :
        /\ i < j
        /\ add_log[i].alias.name = add_log[j].alias.name
        /\ add_log[i].alias # add_log[j].alias
        /\ add_log[j].raised # "none"

\* C23. A request for a model name that the registry does not have is
\* refused before admission: get_or_start_server is not entered for it, the
\* client raises AliasNotFoundError and the manager is as it was (nothing is
\* measured, accounted, stopped or spawned); a name that the registry has is
\* never refused.
C23_UnknownAliasRejected ==
    [][\A t \in callers, name \in Names :
          IF name \in DOMAIN aliases
          THEN ~_patched_create_unknown(t, name)
          ELSE /\ ~Call(t, name)
               /\ _patched_create_unknown(t, name)
                    => /\ task'[t].pc = "idle"
                       /\ task'[t].result.kind = "AliasNotFoundError"
                       /\ task'[t].alias = NoAlias
                       /\ UNCHANGED <<servers, running_servers, resource_models,
                                      key_order, cache_file, measured,
                                      aliases>>]_vars

\* A server runs and a later request for an unknown name was refused.
C23_Witness ==
    \E t \in Tasks :
        /\ task[t].pc = "idle"
        /\ task[t].result.kind = "AliasNotFoundError"
        /\ running_servers # <<>>

\* The request cannot fit the machine even when nothing else runs.
TooBig(alias) == R_need(alias) > total_ram_mb \/ V_need(alias) > total_vram_mb

\* C30. An infeasible request degrades the pool before it fails: when the
\* predicted need exceeds the total RAM or VRAM and some server has status
\* running, the admission goes on to evict and, when it ends, has raised
\* InfeasibleRequest and no server with status running is left in the running
\* set; when no server has status running it raises EvictionImpossible and
\* the running set is as it was.
C30_InfeasibleDegradesPool ==
    [][\A t \in Tasks :
          /\ (Account(t) /\ TooBig(task[t].alias))
                => IF StatusRunningEntries = {}
                   THEN /\ task'[t].result.kind = "EvictionImpossible"
                        /\ running_servers' = running_servers
                   ELSE task'[t].pc = "evict"
          /\ (/\ task[t].pc \in {"evict", "stopping", "recheck"}
              /\ task'[t].pc \notin {"evict", "stopping", "recheck"}
              /\ TooBig(task[t].alias))
                => /\ task'[t].result.kind = "InfeasibleRequest"
                   /\ \A i \in 1..Len(running_servers') :
                         servers'[running_servers'[i]].status # "running"]_vars

\* C24. start() is idempotent for every backend variant: called on a server
\* whose process is live it returns without spawning a second process and
\* keeps the handle.
C24_StartIdempotent ==
    [][((CommandServer_start \/ OllamaServer_start)
            /\ Server_check_running(unit))
          => /\ Len(unit'.procs) = Len(unit.procs)
             /\ unit'.handle = unit.handle]_vars

\* What holds of the variants that inherit CommandServer.start.
C24_CommandStartIdempotent ==
    [][(CommandServer_start /\ Server_check_running(unit))
          => /\ unit'.procs = unit.procs
             /\ unit'.handle = unit.handle
             /\ unit'.raised \in {"none", "returned"}]_vars

\* The command launcher was started twice and has one process, which runs.
C24_Witness ==
    /\ unit.variant \in CommandVariants
    /\ unit.op = "start"
    /\ unit.pc = "idle"
    /\ unit.raised = "returned"
    /\ Len(unit.procs) = 1
    /\ Server_check_running(unit)

\* C25. CommandServer.stop: on a live process it sends terminate and waits;
\* kill is sent exactly when the process has not exited when the grace
\* period ends, and the exit is then waited for; with no process or an
\* exited one neither terminate nor kill is sent; whenever stop returns the
\* handle is cleared and check_running() is false, so a second stop() does
\* nothing.
C25_CommandServerStop ==
    [][unit.variant \in CommandVariants =>
        /\ CommandServer_stop =>
              IF Server_check_running(unit)
              THEN /\ unit'.procs[unit.handle].term
                   /\ ~unit'.procs[unit.handle].kill
                   /\ unit'.handle = unit.handle
                   /\ unit'.pc = "grace"
              ELSE /\ unit'.procs = unit.procs
                   /\ unit'.handle = 0
                   /\ unit'.pc \in {"idle", "poll"}
        /\ \A p \in 1..Len(unit.procs) :
              (unit'.procs[p].kill /\ ~unit.procs[p].kill)
                 => /\ unit.pc = "grace"
                    /\ p = unit.handle
                    /\ unit.procs[p].term
                    /\ unit.procs[p].state = "running"
                    /\ unit'.pc = "killed"
        /\ (unit.pc = "grace" /\ unit'.pc # "grace")
              => /\ unit.procs[unit.handle].state = "running"
                       <=> unit'.procs[unit.handle].kill
                 /\ unit.procs[unit.handle].state = "exited"
                       => unit'.handle = 0
        /\ (unit.pc = "killed" /\ unit'.pc # "killed")
              => unit.procs[unit.handle].state = "exited"
        /\ (unit.pc \in {"stop", "grace", "killed"}
               /\ unit'.pc \in {"idle", "poll"})
              => /\ unit'.handle = 0
                 /\ ~Server_check_running(unit')
                 /\ \A p \in 1..Len(unit.procs) :
                       unit'.procs[p].state = "running"
                          => unit'.procs[p] = unit.procs[p]]_vars

\* A stop() has returned after terminate, the end of the grace period, kill
\* and the exit of the process.
C25_Witness ==
    /\ unit.variant \in CommandVariants
    /\ unit.op = "stop"
    /\ unit.pc = "idle"
    /\ unit.handle = 0
    /\ \E p \in 1..Len(unit.procs) :
          unit.procs[p].term /\ unit.procs[p].kill
             /\ unit.procs[p].state = "exited"

\* C26. start_and_wait: the status is starting before start() is called and
\* through start() and wait_until_ready(); it becomes running only in the
\* step in which wait_until_ready returns (a probe answered 200); when
\* start() or wait_until_ready() raises, the status stays starting.
C26_StartAndWaitOrdering ==
    [][/\ start_and_wait
            => /\ unit'.status = "starting"
               /\ unit'.pc = "start"
               /\ unit'.procs = unit.procs
       /\ (unit.op = "start_and_wait" /\ unit.pc \in {"start", "probe"})
            => unit.status = "starting"
       /\ (unit'.status = "running" /\ unit.status # "running")
            => /\ unit.op = "start_and_wait"
               /\ unit.pc = "probe"
               /\ unit'.probes = unit.probes + 1
               /\ unit'.last = "200"
               /\ unit'.raised = "returned"
       /\ (unit.op = "start_and_wait" /\ unit.pc # "idle"
              /\ unit'.pc = "idle" /\ unit'.raised # "returned")
            => unit'.status = "starting"]_vars

\* A start_and_wait ended with running after probes that were not answered
\* with 200.
C26_Witness ==
    /\ unit.op = "start_and_wait"
    /\ unit.pc = "idle"
    /\ unit.status = "running"
    /\ unit.probes > 1

\* A start_and_wait ended with the TimeoutError of wait_until_ready.
C26_WitnessRaise ==
    /\ unit.op = "start_and_wait"
    /\ unit.pc = "idle"
    /\ unit.raised = "TimeoutError"
    /\ unit.probes = Probes(DefaultTimeout)
    /\ unit.status = "starting"

\* C27. stop_and_wait: the status is stopping before stop() is called;
\* stop() is called once; check_running() is asked only after stop() has
\* returned; the status becomes stopped only in a step in which
\* check_running() answered false.
C27_StopAndWaitOrdering ==
    [][/\ stop_and_wait
            => /\ unit'.status = "stopping"
               /\ unit'.pc = "stop"
               /\ unit'.stops = 0
               /\ unit'.procs = unit.procs
               /\ unit'.handle = unit.handle
       /\ unit.op = "stop_and_wait"
            => /\ unit.pc = "stop"
                    => unit.stops = 0 /\ unit.polls = 0
               /\ unit.pc \in {"grace", "killed"}
                    => unit.stops = 1 /\ unit.polls = 0
               /\ unit.pc = "poll" => unit.stops = 1
               /\ unit.pc # "idle" => unit.status = "stopping"
               /\ unit.pc = "idle" => unit.stops = 1 /\ unit.polls >= 1
       /\ (unit'.status = "stopped" /\ unit.status # "stopped")
            => /\ unit.op = "stop_and_wait"
               /\ unit.pc = "poll"
               /\ ~Server_check_running(unit)
               /\ unit.stops = 1]_vars

\* A stop_and_wait of a server with a live process has ended.
C27_Witness ==
    /\ unit.op = "stop_and_wait"
    /\ unit.pc = "idle"
    /\ unit.status = "stopped"
    /\ \E p \in 1..Len(unit.procs) : unit.procs[p].term

\* C28. wait_until_ready(timeout) makes at most floor(timeout / 0.5) probes,
\* returns at the first probe answered 200, goes on after a transport error
\* or another status, raises TimeoutError exactly when all its probes were
\* made and none was answered 200, and always ends.
C28_WaitUntilReady ==
    /\ [][/\ unit.probes * PollPeriod <= unit.timeout
          /\ wait_until_ready_probe =>
               /\ unit'.probes \in {unit.probes, unit.probes + 1}
               /\ (unit'.probes = unit.probes + 1 /\ unit'.last = "200")
                     => unit'.pc # "probe" /\ unit'.raised = "returned"
               /\ (unit'.probes = unit.probes + 1 /\ unit'.last # "200")
                     => unit'.pc = "probe"
               /\ unit'.raised = "returned"
                     => unit'.probes = unit.probes + 1 /\ unit'.last = "200"
               /\ unit'.probes = unit.probes
                     <=> unit'.raised = "TimeoutError"
               /\ unit'.raised = "TimeoutError"
                     => /\ (unit.probes + 1) * PollPeriod > unit.timeout
                        /\ unit.last # "200"
                        /\ unit'.pc = "idle"]_vars
    /\ (unit.pc = "probe" ~> unit.pc = "idle")

\* A wait_until_ready(1.2) has raised after its two probes.
C28_Witness ==
    /\ unit.op = "wait_until_ready"
    /\ unit.pc = "idle"
    /\ unit.raised = "TimeoutError"
    /\ unit.timeout = 12
    /\ unit.probes = 2

\* C29. stop_and_wait ends for the command launcher, llama.cpp and Ollama:
\* a server whose stop_and_wait has begun eventually has status stopped,
\* with check_running() false.
C29_StopAndWaitTerminates ==
    (unit.op = "stop_and_wait" /\ unit.pc # "idle")
        ~> (unit.pc = "idle" /\ unit.status = "stopped"
               /\ ~Server_check_running(unit))

\* A stop_and_wait is waiting for a process that did not exit on terminate
\* and was killed.
C29_Witness ==
    /\ unit.op = "stop_and_wait"
    /\ unit.pc = "killed"
    /\ unit.procs[unit.handle].state = "running"

\* A stop_and_wait of an Ollama server has ended while its process, which
\* was sent terminate, still runs.
C29_WitnessOllama ==
    /\ unit.variant = "ollama"
    /\ unit.op = "stop_and_wait"
    /\ unit.pc = "idle"
    /\ unit.status = "stopped"
    /\ \E p \in 1..Len(unit.procs) :
          unit.procs[p].term /\ unit.procs[p].state = "running"

\* The weights of two servers are equal.
SameWeight(a, b, dR, dV) ==
    /\ ~WLess(Weight(a, dR, dV), Weight(b, dR, dV))
    /\ ~WLess(Weight(b, dR, dV), Weight(a, dR, dV))

\* The position of an entry in the running set.
PositionOf(s) == CHOOSE i \in 1..Len(running_servers) : running_servers[i] = s

\* a is traversed before b: greater weight, or equal weight and earlier in
\* the running set.
TraversedBefore(a, b, dR, dV) ==
    \/ WLess(Weight(b, dR, dV), Weight(a, dR, dV))
    \/ /\ SameWeight(a, b, dR, dV)
       /\ PositionOf(a) < PositionOf(b)

\* C31. Eviction order: the selection that evict_servers returns lists
\* candidates in descending w_i, candidates of equal w_i in the order of the
\* running set; every candidate left out comes after all selected ones; and
\* the selection is the shortest prefix of that order that meets both
\* deficits, or the whole list when no prefix does.
C31_EvictionOrder ==
    \A t \in Tasks :
        JustSelected(t) =>
            LET sel == task[t].evicted
                dR == R_deficit(t)
                dV == V_deficit(t)
            IN  /\ Range(sel) \subseteq StatusRunningEntries
                /\ \A i, j \in 1..Len(sel) :
                      i < j => TraversedBefore(sel[i], sel[j], dR, dV)
                /\ \A c \in StatusRunningEntries \ Range(sel) :
                      \A i \in 1..Len(sel) :
                          TraversedBefore(sel[i], c, dR, dV)
                /\ \A k \in 1..(Len(sel) - 1) : ~Covers(SubSeq(sel, 1, k), t)
                /\ Range(sel) # StatusRunningEntries => Covers(sel, t)

\* Two candidates of equal weight, of which the one that entered the running
\* set first is selected and the other is not.
C31_Witness ==
    \E t \in Tasks :
        /\ JustSelected(t)
        /\ \E c \in StatusRunningEntries \ Range(task[t].evicted) :
              /\ SameWeight(task[t].evicted[1], c, R_deficit(t), V_deficit(t))
              /\ PositionOf(task[t].evicted[1]) < PositionOf(c)

\* Candidates of different weight, selected in descending order.
C31_WitnessDescending ==
    \E t \in Tasks :
        /\ JustSelected(t)
        /\ Len(task[t].evicted) >= 2
        /\ WLess(Weight(task[t].evicted[2], R_deficit(t), V_deficit(t)),
                 Weight(task[t].evicted[1], R_deficit(t), V_deficit(t)))
        /\ PositionOf(task[t].evicted[2]) < PositionOf(task[t].evicted[1])

\* C32. Eviction favours the constrained resource: when exactly one of RAM
\* and VRAM is in deficit, the first server selected has the largest
\* predicted usage of that resource among the candidates.
C32_FavoursConstrainedResource ==
    \A t \in Tasks :
        JustSelected(t) =>
            LET first == task[t].evicted[1]
            IN  /\ (R_deficit(t) > 0 /\ V_deficit(t) <= 0)
                      => \A c \in StatusRunningEntries :
                            PredictedRAM(servers[c].alias)
                               <= PredictedRAM(servers[first].alias)
                /\ (V_deficit(t) > 0 /\ R_deficit(t) <= 0)
                      => \A c \in StatusRunningEntries :
                            PredictedVRAM(servers[c].alias)
                               <= PredictedVRAM(servers[first].alias)

LivePositions == {i \in 1..Len(running_servers) : check_running(running_servers[i])}

\* r0 + r1 * n_ctx and v0 + v1 * n_ctx of one alias from its cached model.
OwnRAM(alias) ==
    resource_models[ResourceKey(alias)][1]
        + resource_models[ResourceKey(alias)][2] * alias.n_ctx
OwnVRAM(alias) ==
    resource_models[ResourceKey(alias)][3]
        + resource_models[ResourceKey(alias)][4] * alias.n_ctx

RECURSIVE TotalOver(_, _)
TotalOver(S, which) ==
    IF S = {} THEN 0
    ELSE LET i == CHOOSE x \in S : TRUE
             a == servers[running_servers[i]].alias
         IN  (IF which = "ram" THEN OwnRAM(a) ELSE OwnVRAM(a))
                 + TotalOver(S \ {i}, which)

\* C34: get_current_usage is the pair of sums of the predicted RAM and VRAM,
\* each at the server's own n_ctx, over exactly the live entries of the running
\* set; the free amounts an admission works with are the totals minus these
\* sums; computing it leaves the running set alone; appending an entry never
\* lowers either sum.
C34_UsageAccounting ==
    [][/\ get_current_usage = <<TotalOver(LivePositions, "ram"),
                                TotalOver(LivePositions, "vram")>>
       /\ \A t \in Tasks :
             Account(t) =>
                 /\ running_servers' = running_servers
                 /\ task'[t].pc \in {"spawn", "evict"} =>
                       /\ task'[t].R_free
                             = total_ram_mb - TotalOver(LivePositions, "ram")
                       /\ task'[t].V_free
                             = total_vram_mb - TotalOver(LivePositions, "vram")
       /\ (/\ Len(running_servers') = Len(running_servers) + 1
           /\ SubSeq(running_servers', 1, Len(running_servers)) = running_servers
           /\ \A i \in 1..Len(running_servers) :
                 servers'[running_servers[i]] = servers[running_servers[i]])
          => /\ get_current_usage'[1] >= get_current_usage[1]
             /\ get_current_usage'[2] >= get_current_usage[2]]_vars

\* An admission has taken its free amounts while the running set held a live
\* entry, which it counted, and a dead one, which it did not.
C34_Witness ==
    \E t \in Tasks :
        /\ task[t].pc \in {"spawn", "evict"}
        /\ \E i \in 1..Len(running_servers) :
              /\ ~check_running(running_servers[i])
              /\ OwnRAM(servers[running_servers[i]].alias) > 0
        /\ LivePositions # {}
        /\ task[t].R_free = total_ram_mb - TotalOver(LivePositions, "ram")
        /\ task[t].R_free < total_ram_mb

\* Position i of the running set holds a live entry that can serve the alias.
LiveCompatibleAt(i, alias) ==
    /\ check_running(running_servers[i])
    /\ alias.model_name = servers[running_servers[i]].alias.model_name
    /\ alias.backend = servers[running_servers[i]].alias.backend
    /\ alias.command_params = servers[running_servers[i]].alias.command_params
    /\ alias.n_ctx <= servers[running_servers[i]].alias.n_ctx

\* C35: when the running set holds a live compatible entry, the call returns
\* the one at the lowest position, whatever follows it; nothing is measured,
\* evicted, allocated or spawned, and the running set, the servers and the
\* resource cache are as before.
C35_ReuseScan ==
    [][\A t \in Tasks, name \in Names :
          (/\ Call(t, name)
           /\ \E i \in 1..Len(running_servers) :
                 LiveCompatibleAt(i, aliases[name]))
          => /\ task'[t].result.kind = "reused"
             /\ task'[t].pc = IdleTask.pc
             /\ \E i \in 1..Len(running_servers) :
                   /\ task'[t].result.server = running_servers[i]
                   /\ LiveCompatibleAt(i, aliases[name])
                   /\ \A j \in 1..(i - 1) : ~LiveCompatibleAt(j, aliases[name])
             /\ UNCHANGED <<servers, running_servers, resource_models,
                            key_order, cache_file, measured>>]_vars

\* A call was served by an entry that has another live compatible entry
\* behind it in the running set.
C35_Witness ==
    \E t \in Tasks :
        /\ task[t].result.kind = "reused"
        /\ \E i, j \in 1..Len(running_servers) :
              /\ i < j
              /\ task[t].result.server = running_servers[i]
              /\ LiveCompatibleAt(i, task[t].result.alias)
              /\ LiveCompatibleAt(j, task[t].result.alias)

\* A call was served by an entry that stands behind a dead entry of the same
\* alias.
C35_WitnessDeadSkipped ==
    \E t \in Tasks :
        /\ task[t].result.kind = "reused"
        /\ \E i, j \in 1..Len(running_servers) :
              /\ i < j
              /\ task[t].result.server = running_servers[j]
              /\ ~check_running(running_servers[i])
              /\ servers[running_servers[i]].alias = servers[running_servers[j]].alias
              /\ LiveCompatibleAt(j, task[t].result.alias)

StepNames == <<"spawn", "poll", "create", "warm">>

\* The steps begun are an initial part of spawn, poll, create, warm-up, in
\* that order.
InProtocolOrder(u) ==
    /\ Len(u.steps) <= Len(StepNames)
    /\ \A i \in 1..Len(u.steps) : u.steps[i][1] = StepNames[i]

\* The polls and the attempts stay within their numbers; a timeout is raised
\* exactly when they are used up, by the step that was running, which is the
\* last step begun.
TimeoutsEndStart(u) ==
    /\ u.api_polls <= ApiPolls
    /\ u.warmups <= Warmups
    /\ u.raised = ApiReadinessTimeout =>
          /\ u.api_polls = ApiPolls
          /\ Len(u.steps) = 2
          /\ u.steps[2] = <<"poll", "failed">>
    /\ u.raised = WarmupTimeout =>
          /\ u.warmups = Warmups
          /\ Len(u.steps) = 4
          /\ u.steps[4] = <<"warm", "failed">>

\* C36: OllamaServer.start begins its steps in the order spawn, poll of
\* /v1/status, `ollama create`, warm-up; a step is begun only when the step
\* before it has succeeded; at most 30 polls and 20 warm-up attempts are made,
\* their timeouts are raised when these are used up, and no step is begun
\* after a failure.
C36_StartProtocol ==
    /\ InProtocolOrder(unit)
    /\ TimeoutsEndStart(unit)
    /\ \A i \in 2..Len(unit.steps) : unit.steps[i - 1][2] = "ok"

\* The same without `ollama create`: every step but the warm-up is begun only
\* after the success of the one before it.
C36_OrderAndTimeouts ==
    /\ InProtocolOrder(unit)
    /\ TimeoutsEndStart(unit)
    /\ \A i \in 2..Len(unit.steps) :
          unit.steps[i][1] # "warm" => unit.steps[i - 1][2] = "ok"

\* The warm-up was begun after an `ollama create` that had failed.
C36_WarmupAfterFailedCreate ==
    /\ Len(unit.steps) = 4
    /\ unit.steps[3] = <<"create", "failed">>

\* The API never answered: the thirtieth poll was followed by the timeout.
C36_WitnessApiTimeout ==
    /\ unit.raised = ApiReadinessTimeout
    /\ unit.api_polls = ApiPolls

\* The server that admission t is starting, 0 when it is not starting one.
BeingStarted(t) ==
    IF task[t].pc \in {"start", "waiting"} THEN task[t].srv ELSE 0

\* The server that admission t is starting is outside the pool: status
\* starting, not an entry, its port not tracked, its usage not in the sums.
StartingApart(t) ==
    BeingStarted(t) # 0 =>
        /\ servers[BeingStarted(t)].status = "starting"
        /\ BeingStarted(t) \notin Entries
        /\ ~Tracked(servers[BeingStarted(t)].port)
        /\ get_current_usage =
              <<TotalOver({i \in LivePositions :
                             running_servers[i] # BeingStarted(t)}, "ram"),
                TotalOver({i \in LivePositions :
                             running_servers[i] # BeingStarted(t)}, "vram")>>

\* C37: a server is appended to the running set by the step that ends its
\* start_and_wait, with status running; while it starts, its status is
\* starting, it is not an entry, its port is not a tracked port and the usage
\* is the sum over the other servers only; no entry has status starting.
C37_EntersAfterStart ==
    [][/\ \A i \in 1..Len(running_servers') :
             servers'[running_servers'[i]].status # "starting"
       /\ \A t \in Tasks : StartingApart(t)'
       /\ \A s \in Entries' \ Entries :
             \E t \in Tasks :
                 /\ Ready(t)
                 /\ BeingStarted(t) = s
                 /\ servers[s].status = "starting"
                 /\ servers'[s].status = "running"
                 /\ running_servers' = Append(running_servers, s)]_vars

\* A server is starting, its process already runs, next to an entry of the
\* same backend.
C37_Witness ==
    \E t \in Tasks :
        /\ task[t].pc = "waiting"
        /\ check_running(task[t].srv)
        /\ \E e \in Entries :
              /\ check_running(e)
              /\ servers[e].alias.backend = servers[task[t].srv].alias.backend

\* The sequence without its element at the position where it holds e.
WithoutObject(list, e) ==
    SelectSeq(list, LAMBDA x : x # e)

\* C38: the entry that a round of the eviction loop removes is the server
\* object it then stops, also when another entry has an equal alias; a server
\* whose stop begins is no longer an entry, and an entry leaves the running
\* set of a manager only in the round that stops it.
C38_RemovesWhatItStops ==
    [][/\ \A t \in Tasks :
             EvictBegin(t) =>
                 LET e == task[t].evicted[task[t].ei]
                 IN  /\ e \in Entries
                     /\ running_servers' = WithoutObject(running_servers, e)
                     /\ Len(running_servers') = Len(running_servers) - 1
                     /\ servers'[e].status = "stopping"
       /\ restarts' = restarts =>
             /\ \A s \in 1..Len(servers) :
                   (servers[s].status # "stopping" /\ servers'[s].status = "stopping")
                       => s \notin Entries'
             /\ \A s \in Entries \ Entries' :
                   servers[s].status # "stopping" /\ servers'[s].status = "stopping"]_vars

\* A crashed server is being stopped, removed from the running set, while its
\* replacement of the same alias is still an entry.
C38_Witness ==
    \E t \in Tasks :
        /\ task[t].pc = "stopping"
        /\ LET e == task[t].evicted[task[t].ei]
           IN  /\ e \notin Entries
               /\ ~check_running(e)
               /\ \E s \in Entries :
                     /\ s # e
                     /\ servers[s].alias = servers[e].alias
                     /\ check_running(s)

\* Both callers have been served for the same alias, and every server object
\* created so far is a running, live server of that alias: nothing crashed,
\* timed out or was evicted.
BothServedOneAlias ==
    /\ \A t \in Tasks : task[t].pc = "idle" /\ Succeeded(task[t].result)
    /\ \A t, u \in Tasks : task[t].result.alias = task[u].result.alias
    /\ \A s \in 1..Len(servers) :
          /\ servers[s].status = "running"
          /\ check_running(s)
          /\ \A t \in Tasks : servers[s].alias = task[t].result.alias

\* C39: two admissions of one alias on an empty pool, interleaved at their
\* suspension points, spawn exactly one server; both return it, the running
\* set has one entry and no port appears twice.
C39_InterleavedSameAlias ==
    BothServedOneAlias =>
        /\ Len(servers) = 1
        /\ Len(running_servers) = 1
        /\ \A t \in Tasks : task[t].result.server = running_servers[1]
        /\ DistinctPorts

\* Both callers were given a server of their own for the same alias, and the
\* two entries have the same port.
C39_TwoServersOnePort ==
    /\ BothServedOneAlias
    /\ Len(running_servers) = 2
    /\ task[1].result.server # task[2].result.server
    /\ ~DistinctPorts

====
